---------------------------- MODULE Spec2Model ----------------------------
(***************************************************************************)
(* Model of the field-detection and form-synthesis core of pdfservice.     *)
(*                                                                         *)
(* Lengths are integers counted in model units of 1/50 of a PDF unit       *)
(* (0.02), so that the constants of the code (1.5, 2.5, 12.24, ...) and    *)
(* the 0.1 rounding of _dedupe_field_specs are exact integer operations.   *)
(* Lengths are computed exactly; the rounding of Python floats is modelled *)
(* only in the runs of the transform composition (see Float).              *)
(***************************************************************************)
EXTENDS Integers, Sequences, FiniteSets, TLC

VARIABLES
    cands,        \* resolver: the candidate list of one page (input)
    resolved,     \* resolver: output of the first resolution
    resolved2,    \* resolver: output of resolving `resolved` again
    rpc,          \* resolver: "start" | "once" | "twice" | "off"
    doc,          \* conversion: the uploaded document (pages, content, forms)
    page_index,   \* conversion: the page _extract_drawn_fields works on
    stack,        \* conversion: the parse_stream activations, innermost last
    buckets,      \* conversion: fields, line_segments, vertical_segments
    fields_by_page, \* conversion: the candidates of the pages extracted so far
    phase,        \* conversion: "next" | "parse" | "pairing" | "extracted" | "off"
    steps,        \* conversion: the number of steps taken so far
    float_bits,   \* arithmetic: significant bits of a float, 0 when no value rounds
    mats,         \* composition: the three matrices M, N, P
    products,     \* composition: (M N) P and M (N P), "none" until computed
    raster_page,  \* raster: the page whose bitmap is scanned
    image,        \* raster: the rendered grayscale bitmap
    raster_fields, \* raster: the candidates of the checkbox detector
    raster_pc,    \* raster: "render" | "scan" | "detected" | "off"
    radio_field,  \* radio group: the field spec (options, default_value)
    radio_group,  \* radio group: the parent, its kids and the loop's locals
    radio_pc,     \* radio group: "options" | "built" | "off"
    upload,       \* converter: the request (balance, acroform, pages, rasterizer)
    conv_pc,      \* converter: "request" | "vector" | "raster" | "resolve" | "done" | "off"
    has_fields,   \* converter: the document already has interactive fields
    conv_fields,  \* converter: fields_by_page of fillable_form_convert
    raster_index, \* converter: the page the raster loop works on
    calls,        \* converter: the detectors called so far, as <<name, page>>
    out_fields,   \* converter: /Fields of the output document's form
    out_annots,   \* converter: /Annots of the pages of the output document
    response,     \* converter: the JSON response
    usage,        \* converter: the ServiceUsage rows created
    templates,  \* form creator: the stored templates with their fields; the id is the index
    tpl_usage,  \* form creator: ServiceUsage rows per user
    tpl_response,  \* form creator: the last request and its response
    requests, \* form creator: the number of requests handled
    layout,  \* pairing: the line layout both passes are given
    pair_done,  \* pairing: the passes that have run
    vector_out,  \* pairing: the fields of the vector pairing pass
    raster_out, \* pairing: the fields of the raster pairing pass
    purchases,  \* credits of the user's completed purchases
    service_usage,  \* ServiceUsage rows of the user, in order of creation
    in_flight  \* the tool requests the user has in flight

resVars == <<cands, resolved, resolved2, rpc>>
docVars == <<doc, page_index, stack, buckets, fields_by_page, phase, steps>>
matVars == <<float_bits, mats, products>>
rasVars == <<raster_page, image, raster_fields, raster_pc>>
radVars == <<radio_field, radio_group, radio_pc>>
fillVars == <<upload, conv_pc, has_fields, conv_fields, raster_index, calls,
              out_fields, out_annots, response, usage>>
tplVars == <<templates, tpl_usage, tpl_response, requests>>
pairVars == <<layout, pair_done, vector_out, raster_out>>
credVars == <<purchases, service_usage, in_flight>>

vars == <<cands, resolved, resolved2, rpc,
          doc, page_index, stack, buckets, fields_by_page, phase, steps,
          float_bits, mats, products,
          raster_page, image, raster_fields, raster_pc,
          radio_field, radio_group, radio_pc,
          upload, conv_pc, has_fields, conv_fields, raster_index, calls,
          out_fields, out_annots, response, usage,
          templates, tpl_usage, tpl_response, requests,
          layout, pair_done, vector_out, raster_out,
          purchases, service_usage, in_flight>>

\* What the actions of one machine leave alone.
nonResVars == <<docVars, matVars, rasVars, radVars, fillVars, tplVars, pairVars, credVars>>
nonDocVars == <<resVars, matVars, rasVars, radVars, fillVars, tplVars, pairVars, credVars>>
nonMatVars == <<resVars, docVars, rasVars, radVars, fillVars, tplVars, pairVars, credVars>>
nonRasVars == <<resVars, docVars, matVars, radVars, fillVars, tplVars, pairVars, credVars>>
nonRadVars == <<resVars, docVars, matVars, rasVars, fillVars, tplVars, pairVars, credVars>>
nonFillVars == <<resVars, docVars, matVars, rasVars, radVars, tplVars, pairVars, credVars>>
nonTplVars == <<resVars, docVars, matVars, rasVars, radVars, fillVars, pairVars, credVars>>
nonPairVars == <<resVars, docVars, matVars, rasVars, radVars, fillVars, tplVars, credVars>>
nonCreditVars == <<resVars, docVars, matVars, rasVars, radVars, fillVars, tplVars, pairVars>>

-----------------------------------------------------------------------------
(* Units and small helpers                                                 *)

\* Model units per PDF unit.
Unit == 5 * 10

\* n PDF units, and n tenths of a PDF unit, in model units.
Pt(n) == n * Unit
Tenth(n) == n * 5

Min2(a, b) == IF a <= b THEN a ELSE b
Max2(a, b) == IF a >= b THEN a ELSE b
Abs(a) == IF a < 0 THEN -a ELSE a

SeqRange(s) == {s[i] : i \in 1..Len(s)}

RECURSIVE SeqFilter(_, _)
SeqFilter(s, keep) ==
    IF s = <<>> THEN <<>>
    ELSE IF Head(s) \in keep
         THEN <<Head(s)>> \o SeqFilter(Tail(s), keep)
         ELSE SeqFilter(Tail(s), keep)

-----------------------------------------------------------------------------
(* Geometry: src/pages/views.py                                            *)

\* _page_bounds: (left, bottom, right, top) of the page's crop/media box.
PageBounds(page) == page.bounds

\* _clamp_rect
_clamp_rect(rect, page) ==
    LET b  == PageBounds(page)
        x1 == Max2(b[1], Min2(rect[1], b[3]))
        x2 == Max2(b[1], Min2(rect[3], b[3]))
        y1 == Max2(b[2], Min2(rect[2], b[4]))
        y2 == Max2(b[2], Min2(rect[4], b[4]))
    IN  << Min2(x1, x2), Min2(y1, y2), Max2(x1, x2), Max2(y1, y2) >>

\* round(v, 1): the nearest multiple of 0.1. A value in model units is never
\* half-way between two tenths, so no tie rule is needed.
Round1(v) == ((v + 2) \div 5) * 5

\* Mutant of DedupeKey: the key is built from the rect as it is, not rounded.
DedupeKeyExact(field) ==
    << field.type, field.multiline,
       field.rect[1], field.rect[2], field.rect[3], field.rect[4] >>

\* The key _dedupe_field_specs builds for a field.
DedupeKey(field) ==
    << field.type, field.multiline,
       Round1(field.rect[1]), Round1(field.rect[2]),
       Round1(field.rect[3]), Round1(field.rect[4]) >>

RECURSIVE DedupeFrom(_, _)
DedupeFrom(fields, seen) ==
    IF fields = <<>> THEN <<>>
    ELSE LET field == Head(fields)
             key   == DedupeKey(field)
         IN  IF key \in seen
             THEN DedupeFrom(Tail(fields), seen)
             ELSE <<field>> \o DedupeFrom(Tail(fields), seen \cup {key})

\* Mutant of _dedupe_field_specs: the key is built from the rect as it is,
\* and the field is stored with its rect rounded.
RECURSIVE DedupeStoreRoundedFrom(_, _)
DedupeStoreRoundedFrom(fields, seen) ==
    IF fields = <<>> THEN <<>>
    ELSE LET field == Head(fields)
             key   == DedupeKeyExact(field)
             kept  == [field EXCEPT !.rect =
                          << Round1(@[1]), Round1(@[2]), Round1(@[3]), Round1(@[4]) >>]
         IN  IF key \in seen
             THEN DedupeStoreRoundedFrom(Tail(fields), seen)
             ELSE <<kept>> \o DedupeStoreRoundedFrom(Tail(fields), seen \cup {key})

DedupeStoreRounded(fields) == DedupeStoreRoundedFrom(fields, {})

\* _dedupe_field_specs
_dedupe_field_specs(fields) == DedupeFrom(fields, {})

\* _rects_intersect
_rects_intersect(rect_a, rect_b) ==
    ~ (   rect_a[3] <= rect_b[1]
       \/ rect_a[1] >= rect_b[3]
       \/ rect_a[4] <= rect_b[2]
       \/ rect_a[2] >= rect_b[4] )

RECURSIVE FilterTexts(_, _)
FilterTexts(fields, boxes) ==
    IF fields = <<>> THEN <<>>
    ELSE LET field == Head(fields)
             rest  == FilterTexts(Tail(fields), boxes)
         IN  IF field.type # "text" THEN <<field>> \o rest
             ELSE IF \E box \in boxes : _rects_intersect(field.rect, box)
                  THEN rest
                  ELSE <<field>> \o rest

\* _remove_text_overlaps
_remove_text_overlaps(fields) ==
    LET boxes == { fields[i].rect : i \in
                     { j \in 1..Len(fields) : fields[j].type \in {"checkbox", "radio"} } }
    IN  IF boxes = {} THEN fields ELSE FilterTexts(fields, boxes)

\* Candidate resolution of one page, as fillable_form_convert applies it.
ResolvePage(page_fields) ==
    IF page_fields # <<>>
    THEN _remove_text_overlaps(_dedupe_field_specs(page_fields))
    ELSE page_fields

-----------------------------------------------------------------------------
(* Transforms: src/pages/views.py                                          *)

\* _matrix_multiply
\* Python floats carry a fixed number of significant bits (53): the result of
\* every * and + is rounded to that many bits, ties to even. Float(v) is that
\* rounding for a whole number v and float_bits significant bits; float_bits
\* = 0 stands for runs whose values all fit the mantissa, where nothing is
\* rounded.
RECURSIVE BitLength(_)
BitLength(n) == IF n = 0 THEN 0 ELSE 1 + BitLength(n \div 2)

Float(v) ==
    IF float_bits = 0 \/ BitLength(Abs(v)) <= float_bits THEN v
    ELSE LET a     == Abs(v)
             q     == 2 ^ (BitLength(a) - float_bits)
             low   == a \div q
             rest  == a - low * q
             up    == rest * 2 > q \/ (rest * 2 = q /\ low % 2 = 1)
             r     == IF up THEN (low + 1) * q ELSE low * q
         IN  IF v < 0 THEN 0 - r ELSE r

FMul(x, y) == Float(x * y)
FAdd(x, y) == Float(x + y)

\* Variant of _matrix_multiply whose first entry pairs b1 with b2.
MatrixMultiplyWrongTerm(m1, m2) ==
    << FAdd(FMul(m1[1], m2[1]), FMul(m1[2], m2[2])),
       FAdd(FMul(m1[1], m2[2]), FMul(m1[2], m2[4])),
       FAdd(FMul(m1[3], m2[1]), FMul(m1[4], m2[3])),
       FAdd(FMul(m1[3], m2[2]), FMul(m1[4], m2[4])),
       FAdd(FAdd(FMul(m1[5], m2[1]), FMul(m1[6], m2[3])), m2[5]),
       FAdd(FAdd(FMul(m1[5], m2[2]), FMul(m1[6], m2[4])), m2[6]) >>

_matrix_multiply(m1, m2) ==
    << FAdd(FMul(m1[1], m2[1]), FMul(m1[2], m2[3])),
       FAdd(FMul(m1[1], m2[2]), FMul(m1[2], m2[4])),
       FAdd(FMul(m1[3], m2[1]), FMul(m1[4], m2[3])),
       FAdd(FMul(m1[3], m2[2]), FMul(m1[4], m2[4])),
       FAdd(FAdd(FMul(m1[5], m2[1]), FMul(m1[6], m2[3])), m2[5]),
       FAdd(FAdd(FMul(m1[5], m2[2]), FMul(m1[6], m2[4])), m2[6]) >>

\* _transform_point
_transform_point(ctm, x, y) ==
    << ctm[1] * x + ctm[3] * y + ctm[5], ctm[2] * x + ctm[4] * y + ctm[6] >>

SetMin(S) == CHOOSE v \in S : \A w \in S : v <= w
SetMax(S) == CHOOSE v \in S : \A w \in S : v >= w

\* _bbox_from_points
_bbox_from_points(points) ==
    LET xs == { points[i][1] : i \in 1..Len(points) }
        ys == { points[i][2] : i \in 1..Len(points) }
    IN  << SetMin(xs), SetMin(ys), SetMax(xs), SetMax(ys) >>

\* The integer part of the square root of n, by bisection.
RECURSIVE SqrtBetween(_, _, _)
SqrtBetween(n, lo, hi) ==
    IF hi - lo <= 1 THEN lo
    ELSE LET mid == (lo + hi) \div 2
         IN  IF mid * mid <= n THEN SqrtBetween(n, mid, hi)
                               ELSE SqrtBetween(n, lo, mid)

ISqrt(n) == IF n <= 0 THEN 0 ELSE SqrtBetween(n, 0, Min2(n, 46000) + 1)

\* math.hypot, rounded down to a whole model unit. The code only compares
\* lengths with thresholds that are whole model units, and for those
\* floor(h) < c is h < c and floor(h) >= c is h >= c.
Hypot(dx, dy) ==
    IF dy = 0 THEN Abs(dx)
    ELSE IF dx = 0 THEN Abs(dy)
    ELSE ISqrt(dx * dx + dy * dy)

\* _matrix_scale: sqrt(|a*d - b*c|) or 1.0. The matrices of the model have a
\* determinant that is a perfect square.
_matrix_scale(ctm) ==
    LET r == ISqrt(Abs(ctm[1] * ctm[4] - ctm[2] * ctm[3]))
    IN  IF r = 0 THEN 1 ELSE r

IdentityMatrix == << 1, 0, 0, 1, 0, 0 >>

-----------------------------------------------------------------------------
(* _extract_drawn_fields: thresholds and the shape classifier              *)

\* (a + b) / 2.0; the coordinates drawn in the model are even numbers of
\* model units, so the midpoint is a whole number of them.
Mid(a, b) == (a + b) \div 2

page_width(page) == PageBounds(page)[3] - PageBounds(page)[1]
\* max(10.0, page_width * 0.02)
min_line_len(page) == Max2(Pt(10), (page_width(page) * 2) \div 100)
max_line_thickness == Pt(4)
min_box == Pt(8)
max_box == Pt(26)
text_height == Pt(14)
max_text_box_height == Pt(32)

\* The lists _extract_drawn_fields fills while it walks a page.
EmptyBuckets == [fields |-> <<>>, line_segments |-> <<>>, vertical_segments |-> <<>>]

\* add_text_field_from_line
add_text_field_from_line(fields, page, bbox, stroke_width) ==
    LET line_y == Max2(bbox[2], bbox[4])
        height == Max2(Pt(12), Min2(Pt(16), text_height))
        rect   == _clamp_rect(<< bbox[1], line_y, bbox[3], line_y + height >>, page)
    IN  IF rect[3] - rect[1] < Pt(6) THEN fields
        ELSE Append(fields, [type |-> "text", rect |-> rect, multiline |-> FALSE])

\* add_line_segment
add_line_segment(G, page, x1, y1, x2, y2, stroke_width) ==
    LET length == Hypot(x2 - x1, y2 - y1)
        y_mid  == Mid(y1, y2)
        b      == PageBounds(page)
    IN  IF Abs(y2 - y1) > max_line_thickness THEN G
        ELSE IF length < min_line_len(page) THEN G
        ELSE IF y_mid <= b[2] + Pt(2) \/ y_mid >= b[4] - Pt(2) THEN G
        ELSE [G EXCEPT !.line_segments = Append(@,
                 [x1 |-> Min2(x1, x2), x2 |-> Max2(x1, x2), y |-> y_mid,
                  stroke |-> stroke_width, length |-> length])]

\* add_vertical_segment
add_vertical_segment(G, page, x1, y1, x2, y2, stroke_width) ==
    LET length == Hypot(x2 - x1, y2 - y1)
        x_mid  == Mid(x1, x2)
        b      == PageBounds(page)
    IN  IF Abs(x2 - x1) > max_line_thickness THEN G
        ELSE IF length < min_box THEN G
        ELSE IF x_mid <= b[1] + Pt(2) \/ x_mid >= b[3] - Pt(2) THEN G
        ELSE [G EXCEPT !.vertical_segments = Append(@,
                 [x |-> x_mid, y1 |-> Min2(y1, y2), y2 |-> Max2(y1, y2),
                  stroke |-> stroke_width, length |-> length])]

\* add_checkbox
add_checkbox(G, page, bbox) ==
    [G EXCEPT !.fields = Append(@,
        [type |-> "checkbox", rect |-> _clamp_rect(bbox, page), multiline |-> FALSE])]

\* add_radio
add_radio(G, page, bbox) ==
    [G EXCEPT !.fields = Append(@,
        [type |-> "radio", rect |-> _clamp_rect(bbox, page), multiline |-> FALSE])]

\* min_box <= width <= max_box and min_box <= height <= max_box
\* and 0.8 <= width / height <= 1.25 (ratio is 0 when height is 0)
BoxWindow(width, height) ==
    /\ min_box <= width /\ width <= max_box
    /\ min_box <= height /\ height <= max_box
    /\ height # 0
    /\ 4 * height <= 5 * width
    /\ 4 * width <= 5 * height

RECURSIVE FlattenPoints(_)
FlattenPoints(segs) ==
    IF segs = <<>> THEN <<>> ELSE Head(segs).points \o FlattenPoints(Tail(segs))

LineEnds(seg) ==
    << <<seg.points[1], seg.points[2]>>, <<seg.points[3], seg.points[4]>> >>

RECURSIVE FlattenLineEnds(_)
FlattenLineEnds(segs) ==
    IF segs = <<>> THEN <<>> ELSE LineEnds(Head(segs)) \o FlattenLineEnds(Tail(segs))

\* A rectangle segment: a thin bar is one horizontal line, a square inside the
\* box window is a checkbox, anything else contributes its four edges.
ClassifyRectSegment(G, page, bbox, stroke_width) ==
    LET width  == bbox[3] - bbox[1]
        height == bbox[4] - bbox[2]
    IN  IF width <= 0 \/ height <= 0 THEN G
        ELSE IF height <= max_line_thickness /\ width >= min_line_len(page)
             THEN add_line_segment(G, page, bbox[1], bbox[2], bbox[3], bbox[4], stroke_width)
        ELSE IF BoxWindow(width, height) THEN add_checkbox(G, page, bbox)
        ELSE LET G1 == add_line_segment(G, page, bbox[1], bbox[2], bbox[3], bbox[2], stroke_width)
                 G2 == add_line_segment(G1, page, bbox[1], bbox[4], bbox[3], bbox[4], stroke_width)
                 G3 == add_vertical_segment(G2, page, bbox[1], bbox[2], bbox[1], bbox[4], stroke_width)
             IN  add_vertical_segment(G3, page, bbox[3], bbox[2], bbox[3], bbox[4], stroke_width)

\* A line segment: near-horizontal lines and near-vertical lines are kept,
\* slanted ones are dropped.
ClassifyLineSegment(G, page, points, stroke_width) ==
    LET x1 == points[1]
        y1 == points[2]
        x2 == points[3]
        y2 == points[4]
    IN  IF Abs(y2 - y1) > max_line_thickness
        THEN IF Abs(x2 - x1) <= max_line_thickness
             THEN add_vertical_segment(G, page, x1, y1, x2, y2, stroke_width)
             ELSE G
        ELSE add_line_segment(G, page, x1, y1, x2, y2, stroke_width)

\* Variant in which a rectangle contributes only its two horizontal edges.
ClassifySegmentHorizontalEdges(G, page, seg, stroke_width) ==
    IF seg.kind = "rect" THEN
        LET bbox   == seg.bbox
            width  == bbox[3] - bbox[1]
            height == bbox[4] - bbox[2]
        IN  IF width <= 0 \/ height <= 0 THEN G
            ELSE IF height <= max_line_thickness /\ width >= min_line_len(page)
                 THEN add_line_segment(G, page, bbox[1], bbox[2], bbox[3], bbox[4], stroke_width)
            ELSE IF BoxWindow(width, height) THEN add_checkbox(G, page, bbox)
            ELSE add_line_segment(
                     add_line_segment(G, page, bbox[1], bbox[2], bbox[3], bbox[2], stroke_width),
                     page, bbox[1], bbox[4], bbox[3], bbox[4], stroke_width)
    ELSE IF seg.kind = "line" THEN ClassifyLineSegment(G, page, seg.points, stroke_width)
    ELSE G

\* One segment of a painted path (the loop body of classify_path).
ClassifySegment(G, page, seg, stroke_width) ==
    IF seg.kind = "rect" THEN ClassifyRectSegment(G, page, seg.bbox, stroke_width)
    ELSE IF seg.kind = "line" THEN ClassifyLineSegment(G, page, seg.points, stroke_width)
    ELSE G

\* classify_path, the loop over the segments of a path (the last for loop).
RECURSIVE ClassifySegments(_, _, _, _)
ClassifySegments(G, page, segs, stroke_width) ==
    IF segs = <<>> THEN G
    ELSE ClassifySegments(ClassifySegment(G, page, Head(segs), stroke_width),
                          page, Tail(segs), stroke_width)

\* classify_path
classify_path(G, page, path_segments) ==
    IF path_segments = <<>> THEN G
    ELSE
    LET stroke_width  == SetMax({ path_segments[i].line_width : i \in 1..Len(path_segments) })
        has_curve     == \E i \in 1..Len(path_segments) : path_segments[i].kind = "curve"
        has_rect_line == \E i \in 1..Len(path_segments) :
                            path_segments[i].kind \in {"rect", "line"}
        all_lines     == \A i \in 1..Len(path_segments) : path_segments[i].kind = "line"
    IN  IF has_curve /\ ~ has_rect_line THEN
            LET bbox == _bbox_from_points(FlattenPoints(path_segments))
            IN  IF BoxWindow(bbox[3] - bbox[1], bbox[4] - bbox[2])
                THEN add_radio(G, page, bbox)
                ELSE G
        ELSE IF all_lines
                /\ LET bbox == _bbox_from_points(FlattenLineEnds(path_segments))
                   IN  /\ BoxWindow(bbox[3] - bbox[1], bbox[4] - bbox[2])
                       /\ Len(path_segments) >= 3
        THEN add_checkbox(G, page, _bbox_from_points(FlattenLineEnds(path_segments)))
        ELSE ClassifySegments(G, page, path_segments, stroke_width)

RECURSIVE ClassifyPaths(_, _, _)
ClassifyPaths(G, page, subpaths) ==
    IF subpaths = <<>> THEN G
    ELSE ClassifyPaths(classify_path(G, page, Head(subpaths)), page, Tail(subpaths))

-----------------------------------------------------------------------------
(* _extract_drawn_fields: the pairing pass and the underline loop          *)

underline_max_stroke == Tenth(25)
rect_max_stroke == Tenth(25)
rect_min_height == Pt(12)
rect_max_height == max_text_box_height

RECURSIVE SelectSeq2(_, _, _)
\* The elements s[i] with i in keep, in order, as records [idx, seg].
SelectSeq2(s, i, keep) ==
    IF i > Len(s) THEN <<>>
    ELSE IF i \in keep
         THEN << [idx |-> i, seg |-> s[i]] >> \o SelectSeq2(s, i + 1, keep)
         ELSE SelectSeq2(s, i + 1, keep)

RECURSIVE SelectSegs(_, _, _)
SelectSegs(s, i, keep) ==
    IF i > Len(s) THEN <<>>
    ELSE IF i \in keep
         THEN << s[i] >> \o SelectSegs(s, i + 1, keep)
         ELSE SelectSegs(s, i + 1, keep)

\* horizontal_lines
horizontal_lines(G, page) ==
    LET b == PageBounds(page)
    IN  SelectSegs(G.line_segments, 1,
           { i \in 1..Len(G.line_segments) :
                /\ G.line_segments[i].length >= min_line_len(page)
                /\ b[2] + Pt(2) < G.line_segments[i].y
                /\ G.line_segments[i].y < b[4] - Pt(2) })

\* vertical_lines
vertical_lines(G) ==
    SelectSegs(G.vertical_segments, 1,
       { i \in 1..Len(G.vertical_segments) : G.vertical_segments[i].length >= min_box })

\* has_vertical_at
\* Variant whose vertical must overshoot the lower line by the tolerance.
has_vertical_overshooting(verticals, x, y_low, y_high) ==
    \E i \in 1..Len(verticals) :
        LET v == verticals[i]
        IN  /\ ~ (Abs(v.x - x) > Tenth(25))
            /\ ~ (v.length < rect_min_height)
            /\ v.y1 <= y_low - Tenth(25)
            /\ v.y2 >= y_high - Tenth(25)

has_vertical_at(verticals, x, y_low, y_high) ==
    \E i \in 1..Len(verticals) :
        LET v == verticals[i]
        IN  /\ ~ (Abs(v.x - x) > Tenth(25))
            /\ ~ (v.length < rect_min_height)
            /\ v.y1 <= y_low + Tenth(25)
            /\ v.y2 >= y_high - Tenth(25)

\* has_internal_line
has_internal_line(horizontals, x1, x2, y_low, y_high) ==
    \E i \in 1..Len(horizontals) :
        LET line      == horizontals[i]
            overlap   == Min2(x2, line.x2) - Max2(x1, line.x1)
            max_width == Max2(x2 - x1, line.x2 - line.x1)
        IN  /\ ~ (line.y <= y_low + Pt(3) \/ line.y >= y_high - Pt(3))
            /\ ~ (overlap <= 0)
            /\ ~ (max_width <= 0)
            /\ 5 * overlap >= 4 * max_width

\* list.sort(key=y): a stable insertion of item into a list sorted by y.
RECURSIVE InsertByY(_, _)
InsertByY(sorted, item) ==
    IF sorted = <<>> THEN << item >>
    ELSE IF Head(sorted).seg.y <= item.seg.y
         THEN << Head(sorted) >> \o InsertByY(Tail(sorted), item)
         ELSE << item >> \o sorted

RECURSIVE SortByY(_)
SortByY(items) ==
    IF items = <<>> THEN <<>>
    ELSE InsertByY(SortByY(SubSeq(items, 1, Len(items) - 1)), items[Len(items)])

\* rect_candidates, sorted
rect_candidates(horizontals) ==
    SortByY(SelectSeq2(horizontals, 1,
               { i \in 1..Len(horizontals) : horizontals[i].stroke <= rect_max_stroke }))

\* The inner loop of the pairing pass (for j in range(i + 1, ...)), from j on.
\* st is [used_lines, fields, pairs]; pairs records, for every Text rectangle
\* the pass appends, the indexes of its two lines (a history of the `break`
\* branch, read by no code).
RECURSIVE PairInner(_, _, _, _, _, _, _)
PairInner(rc, horizontals, verticals, page, i, j, st) ==
    IF j > Len(rc) THEN st
    ELSE
    LET top_seg    == rc[i].seg
        bottom_seg == rc[j].seg
        y_diff     == bottom_seg.y - top_seg.y
        overlap    == Min2(top_seg.x2, bottom_seg.x2) - Max2(top_seg.x1, bottom_seg.x1)
        max_width  == Max2(top_seg.x2 - top_seg.x1, bottom_seg.x2 - bottom_seg.x1)
        x1         == Max2(top_seg.x1, bottom_seg.x1)
        x2         == Min2(top_seg.x2, bottom_seg.x2)
        y_low      == Min2(top_seg.y, bottom_seg.y)
        y_high     == Max2(top_seg.y, bottom_seg.y)
        next       == PairInner(rc, horizontals, verticals, page, i, j + 1, st)
    IN  IF y_diff < rect_min_height THEN next
        ELSE IF y_diff > rect_max_height THEN st
        ELSE IF overlap <= 0 THEN next
        ELSE IF max_width <= 0 THEN next
        ELSE IF 5 * overlap < 4 * max_width THEN next
        ELSE IF x2 - x1 < Pt(20) THEN next
        ELSE IF ~ (/\ has_vertical_at(verticals, x1, y_low, y_high)
                   /\ has_vertical_at(verticals, x2, y_low, y_high)) THEN next
        ELSE IF has_internal_line(horizontals, x1, x2, y_low, y_high) THEN next
        ELSE
        LET used   == st.used_lines \cup { rc[i].idx, rc[j].idx }
            rect   == _clamp_rect(<< x1 + Tenth(15), y_low + Tenth(15),
                                     x2 - Tenth(15), y_high - Tenth(15) >>, page)
            height == rect[4] - rect[2]
        IN  IF height < rect_min_height
            THEN PairInner(rc, horizontals, verticals, page, i, j + 1,
                           [st EXCEPT !.used_lines = used])
            ELSE [used_lines |-> used,
                  fields |-> Append(st.fields,
                      [type |-> "text", rect |-> rect, multiline |-> (height >= Pt(24))]),
                  pairs |-> Append(st.pairs, << rc[i].idx, rc[j].idx >>)]

\* The outer loop of the pairing pass (for i, (idx, top_seg) in enumerate(...)).
RECURSIVE PairOuter(_, _, _, _, _, _)
PairOuter(rc, horizontals, verticals, page, i, st) ==
    IF i > Len(rc) THEN st
    ELSE PairOuter(rc, horizontals, verticals, page, i + 1,
                   PairInner(rc, horizontals, verticals, page, i, i + 1, st))

\* The loop that turns the unused horizontal lines into underline candidates.
RECURSIVE UnderlineLoop(_, _, _, _, _)
UnderlineLoop(horizontals, page, idx, used_lines, fields) ==
    IF idx > Len(horizontals) THEN fields
    ELSE LET seg == horizontals[idx]
         IN  IF seg.stroke > underline_max_stroke \/ idx \in used_lines
             THEN UnderlineLoop(horizontals, page, idx + 1, used_lines, fields)
             ELSE UnderlineLoop(horizontals, page, idx + 1, used_lines,
                     add_text_field_from_line(fields, page,
                         << seg.x1, seg.y, seg.x2, seg.y >>, seg.stroke))

\* The state of the pairing pass after its two nested loops.
PairingResult(G, page) ==
    LET horizontals == horizontal_lines(G, page)
    IN  PairOuter(rect_candidates(horizontals), horizontals, vertical_lines(G), page, 1,
                  [used_lines |-> {}, fields |-> G.fields, pairs |-> <<>>])

\* _extract_drawn_fields after parse_stream: `if line_segments:` ... and the
\* final _dedupe_field_specs.
FinishExtract(G, page) ==
    IF G.line_segments = <<>> THEN _dedupe_field_specs(G.fields)
    ELSE LET st == PairingResult(G, page)
         IN  _dedupe_field_specs(
                UnderlineLoop(horizontal_lines(G, page), page, 1, st.used_lines, st.fields))

-----------------------------------------------------------------------------
(* _extract_drawn_fields.parse_stream: the content-stream interpreter      *)

\* An instruction of a content stream: (operands, operator). args are the
\* operands, bad the positions of those float() rejects (a name, a string,
\* an array). The operand of Do is a name; a Do whose operand list is empty
\* has the name "".
Op(o, a) == [op |-> o, args |-> a, name |-> "", bad |-> {}]
OpBad(o, a, bad) == [op |-> o, args |-> a, name |-> "", bad |-> bad]
DoOp(n) == [op |-> "Do", args |-> <<>>, name |-> n, bad |-> {}]

\* float(operands[0]), ..., float(operands[need - 1]) inside a try: the
\* numbers, or <<>> when an operand is missing or is no number.
FloatOperands(instr, need) ==
    IF Len(instr.args) >= need /\ instr.bad \cap (1..need) = {}
    THEN SubSeq(instr.args, 1, need)
    ELSE <<>>

\* [float(val) for val in operands]: every operand, or <<>> when one of them
\* is no number.
AllFloatOperands(instr) == FloatOperands(instr, Len(instr.args))

\* operands[0] of an empty operand list raises IndexError.
MissingOperand(instr) == instr.name = ""

paint_ops == {"S", "s", "B", "B*", "b", "b*"}
reset_ops == {"n"}
curve_ops == {"c", "v", "y"}
handled_ops == {"q", "Q", "cm", "w", "Do", "m", "l", "re"}
                  \cup curve_ops \cup paint_ops \cup reset_ops

\* `if depth > 8: return`
depth_cap == 8
\* Variant of the depth guard that lets one more level through.
DepthExceededLate(depth) == depth > depth_cap + 1
DepthExceeded(depth) == depth > depth_cap

\* current_point = None
NoPoint == <<>>

\* The local variables of one parse_stream activation. stream names the
\* content stream it walks ("page", or the name of a form object) and ip
\* the instruction the for loop is at.
NewFrame(stream, start_ctm, start_line_width, depth) ==
    [stream |-> stream, ip |-> 1, depth |-> depth,
     ctm |-> start_ctm, line_width |-> start_line_width,
     state_stack |-> <<>>, current_point |-> NoPoint,
     subpaths |-> <<>>, current_path |-> <<>>]

\* record_line_width
record_line_width(f) == f.line_width * _matrix_scale(f.ctm)

\* q
DoSave(f) ==
    [f EXCEPT !.state_stack = Append(@, << f.ctm, f.line_width, f.current_point,
                                           f.current_path, f.subpaths >>),
              !.current_point = NoPoint,
              !.current_path = <<>>,
              !.subpaths = <<>>]

\* Q
DoRestore(f) ==
    IF f.state_stack # <<>>
    THEN LET saved == f.state_stack[Len(f.state_stack)]
         IN  [f EXCEPT !.state_stack = SubSeq(@, 1, Len(@) - 1),
                       !.ctm = saved[1],
                       !.line_width = saved[2],
                       !.current_point = saved[3],
                       !.current_path = saved[4],
                       !.subpaths = saved[5]]
    ELSE [f EXCEPT !.ctm = IdentityMatrix,
                   !.line_width = Pt(1),
                   !.current_point = NoPoint,
                   !.current_path = <<>>,
                   !.subpaths = <<>>]

\* cm
DoConcat(f, args) ==
    IF Len(args) = 6 THEN [f EXCEPT !.ctm = _matrix_multiply(f.ctm, args)] ELSE f

\* w
DoLineWidth(f, args) ==
    IF Len(args) >= 1 THEN [f EXCEPT !.line_width = args[1]]
    ELSE [f EXCEPT !.line_width = Pt(1)]

\* The subpaths with the open path, if any, closed into them.
WithOpenPath(f) ==
    IF f.current_path # <<>> THEN Append(f.subpaths, f.current_path) ELSE f.subpaths

\* m
DoMove(f, args) ==
    LET g == [f EXCEPT !.subpaths = WithOpenPath(f), !.current_path = <<>>]
    IN  IF Len(args) >= 2
        THEN [g EXCEPT !.current_point = _transform_point(f.ctm, args[1], args[2])]
        ELSE [g EXCEPT !.current_point = NoPoint]

\* l
DoLine(f, args) ==
    IF f.current_point = NoPoint THEN f
    ELSE IF Len(args) < 2 THEN f
    ELSE LET end_point == _transform_point(f.ctm, args[1], args[2])
         IN  [f EXCEPT !.current_path = Append(@,
                            [kind |-> "line",
                             points |-> f.current_point \o end_point,
                             line_width |-> record_line_width(f)]),
                       !.current_point = end_point]

\* re
DoRect(f, args) ==
    IF Len(args) < 4 THEN f
    ELSE LET x == args[1]
             y == args[2]
             w == args[3]
             h == args[4]
             corners == << _transform_point(f.ctm, x, y),
                           _transform_point(f.ctm, x + w, y),
                           _transform_point(f.ctm, x + w, y + h),
                           _transform_point(f.ctm, x, y + h) >>
             bbox == _bbox_from_points(corners)
         IN  [f EXCEPT !.subpaths = Append(WithOpenPath(f),
                            << [kind |-> "rect", bbox |-> bbox,
                                line_width |-> record_line_width(f)] >>),
                       !.current_path = <<>>]

\* c, v, y
DoCurve(f, op, args) ==
    LET need   == IF op = "c" THEN 6 ELSE 4
        start  == IF f.current_point # NoPoint THEN << f.current_point >> ELSE <<>>
        points == IF Len(args) < need THEN <<>>
                  ELSE start \o [ k \in 1..(need \div 2) |->
                          _transform_point(f.ctm, args[2 * k - 1], args[2 * k]) ]
    IN  IF points = <<>> THEN f
        ELSE [f EXCEPT !.current_path = Append(@,
                           [kind |-> "curve", points |-> points,
                            line_width |-> record_line_width(f)]),
                       !.current_point = points[Len(points)]]

\* paint operators: the frame afterwards
DoPaint(f) == [f EXCEPT !.current_path = <<>>, !.subpaths = <<>>]

\* n
DoReset(f) == [f EXCEPT !.current_path = <<>>, !.subpaths = <<>>]

-----------------------------------------------------------------------------
(* The documents of the model                                              *)

\* Page boxes: (left, bottom, right, top).
SmallPage  == << 0, 0, Pt(300), Pt(200) >>
LetterPage == << 0, 0, Pt(612), Pt(792) >>

NoForms == [n \in {} |-> 0]

\* A page: its box, whether it has contents and whether they decode, its
\* instructions, and the form objects of its /XObject resources by name.
Page(bounds, content, forms) ==
    [bounds |-> bounds, has_contents |-> TRUE, readable |-> TRUE,
     content |-> content, forms |-> forms]

\* A form object: /Subtype /Form or not, whether its stream decodes, its
\* /Matrix (<<>> when absent) and its instructions.
Form(matrix, ops) == [is_form |-> TRUE, readable |-> TRUE, matrix |-> matrix, ops |-> ops]

\* A box (x, y, w, h) stroked with line width lw as one rectangle primitive.
RectStream(b) ==
    << Op("w", << b.lw >>), Op("re", << b.x, b.y, b.w, b.h >>) >>

\* The same box as four separate line segments: bottom, top, left, right.
LinesStream(b) ==
    << Op("w", << b.lw >>),
       Op("m", << b.x, b.y >>),             Op("l", << b.x + b.w, b.y >>),
       Op("m", << b.x, b.y + b.h >>),       Op("l", << b.x + b.w, b.y + b.h >>),
       Op("m", << b.x, b.y >>),             Op("l", << b.x, b.y + b.h >>),
       Op("m", << b.x + b.w, b.y >>),       Op("l", << b.x + b.w, b.y + b.h >>) >>

\* A third horizontal line across the middle of the box.
MiddleStream(b) ==
    IF b.third
    THEN << Op("m", << b.x, b.y + Mid(0, b.h) >>),
            Op("l", << b.x + b.w, b.y + Mid(0, b.h) >>) >>
    ELSE <<>>

\* Sizes (w, h) of the boxes: a text box, a tall text box, a checkbox, a thin
\* bar, a box taller than the pairing window, boxes at the edges of the
\* pairing window, a narrow box.
BoxSizes ==
    { << Pt(120), Pt(20) >>, << Pt(120), Pt(30) >>, << Pt(12), Pt(12) >>,
      << Pt(100), Pt(3) >>,  << Pt(60), Pt(40) >>,  << Pt(120), Pt(13) >>,
      << Pt(120), Pt(15) >>, << Pt(120), Pt(32) >>, << Pt(16), Pt(20) >>,
      << Pt(24), Pt(24) >> }

\* Lower-left corners: inside the page, at its left edge, beyond its right
\* edge, near its top edge.
BoxCorners ==
    { << Pt(50), Pt(50) >>, << Pt(1), Pt(50) >>, << Pt(320), Pt(50) >>,
      << Pt(50), Pt(170) >> }

\* Line widths: the default 1, 2 and 3 (above the 2.5 stroke threshold).
BoxLineWidths == { Pt(1), Pt(2), Pt(3) }

Boxes ==
    { [x |-> c[1], y |-> c[2], w |-> sz[1], h |-> sz[2], lw |-> lw, third |-> t] :
        c \in BoxCorners, sz \in BoxSizes, lw \in BoxLineWidths, t \in BOOLEAN }

\* Page 1 draws the box as a rectangle primitive, page 2 as four lines.
BoxDoc(b) ==
    [kind |-> "box", box |-> b,
     pages |-> << Page(SmallPage, RectStream(b) \o MiddleStream(b) \o << Op("S", <<>>) >>, NoForms),
                  Page(SmallPage, LinesStream(b) \o MiddleStream(b) \o << Op("S", <<>>) >>, NoForms) >>]

NoBox == [x |-> 0, y |-> 0, w |-> 0, h |-> 0, lw |-> 0, third |-> FALSE]

\* The 12 by 12 square every nested form strokes, and the step by which the
\* /Matrix of a form moves it.
NestSquare == Op("re", << Pt(20), Pt(20), Pt(12), Pt(12) >>)
NestStep == Pt(30)
NestMatrix == << 1, 0, 0, 1, NestStep, 0 >>

\* Documents whose page invokes form objects: a form that invokes itself, two
\* forms that invoke each other, a form that invokes itself twice (and
\* discards its path), a chain that ends, and invocations that resolve to
\* nothing.
NestDocs ==
    { [kind |-> "self", box |-> NoBox,
       pages |-> << Page(LetterPage, << DoOp("F") >>,
           [n \in {"F"} |-> Form(NestMatrix,
               << NestSquare, Op("S", <<>>), DoOp("F") >>)]) >>],
      [kind |-> "mutual", box |-> NoBox,
       pages |-> << Page(LetterPage, << DoOp("F") >>,
           [n \in {"F", "G"} |->
               IF n = "F"
               THEN Form(NestMatrix, << NestSquare, Op("S", <<>>), DoOp("G") >>)
               ELSE Form(NestMatrix, << DoOp("F"), NestSquare, Op("S", <<>>) >>)]) >>],
      [kind |-> "twice", box |-> NoBox,
       pages |-> << Page(LetterPage, << DoOp("F") >>,
           [n \in {"F"} |-> Form(NestMatrix,
               << Op("q", <<>>), DoOp("F"), NestSquare, Op("n", <<>>), DoOp("F"),
                  Op("Q", <<>>) >>)]) >>],
      [kind |-> "chain", box |-> NoBox,
       pages |-> << Page(LetterPage, << NestSquare, Op("s", <<>>), DoOp("F") >>,
           [n \in {"F", "G"} |->
               IF n = "F"
               THEN Form(<<>>, << Op("cm", NestMatrix), NestSquare, Op("b", <<>>), DoOp("G") >>)
               ELSE Form(NestMatrix, << NestSquare, Op("b*", <<>>), DoOp("H") >>)]) >>],
      [kind |-> "unusable", box |-> NoBox,
       pages |-> << Page(LetterPage,
                         << DoOp("F"), DoOp("G"), DoOp("H"), NestSquare, Op("B*", <<>>) >>,
           [n \in {"F", "G"} |->
               IF n = "F"
               THEN [Form(<<>>, << NestSquare, Op("S", <<>>) >>) EXCEPT !.is_form = FALSE]
               ELSE [Form(<<>>, << NestSquare, Op("S", <<>>) >>) EXCEPT !.readable = FALSE]]) >>] }

\* A circle of diameter d with lower-left corner (x, y) as four Bezier arcs.
CircleStream(x, y, d) ==
    LET r == Mid(0, d)
    IN  << Op("m", << x, y + r >>),
           Op("c", << x, y + d, x, y + d, x + r, y + d >>),
           Op("v", << x + d, y + d, x + d, y + r >>),
           Op("y", << x + d, y, x + r, y >>),
           Op("c", << x, y, x, y, x, y + r >>) >>

\* Documents that exercise the graphics state: save and restore, transforms,
\* curves, a closed polyline, a discarded path, operators that are not
\* handled, a page without contents and a page whose contents do not decode.
StateDocs ==
    { [kind |-> "state", box |-> NoBox,
       pages |-> << Page(SmallPage,
            << Op("q", <<>>), Op("cm", << 2, 0, 0, 2, Pt(10), Pt(10) >>),
               Op("w", << Pt(1) >>),
               Op("m", << Pt(10), Pt(10) >>), Op("l", << Pt(16), Pt(10) >>),
               Op("l", << Pt(16), Pt(16) >>), Op("l", << Pt(10), Pt(16) >>),
               Op("h", <<>>), Op("S", <<>>),
               Op("Q", <<>>), Op("Q", <<>>),
               Op("re", << Pt(100), Pt(100), Pt(80), Pt(20) >>), Op("n", <<>>),
               Op("BT", <<>>), Op("re", << Pt(100), Pt(60), Pt(80), Pt(20) >>),
               Op("f", <<>>), Op("B", <<>>) >>
            \o CircleStream(Pt(200), Pt(100), d) \o << Op("S", <<>>) >>, NoForms),
                    [Page(SmallPage, <<>>, NoForms) EXCEPT !.has_contents = FALSE],
                    [Page(SmallPage, << NestSquare, Op("S", <<>>) >>, NoForms)
                        EXCEPT !.readable = FALSE] >>] : d \in { Pt(12), Pt(40) } }

\* A rule 150 long stroked 1 wide, and the same rule after a line width of 5.
RuleMove == Op("m", << Pt(50), Pt(100) >>)
RuleLine == Op("l", << Pt(200), Pt(100) >>)
Stroke == Op("S", <<>>)
ThinWidth == Op("w", << Pt(1) >>)
WideWidth == Op("w", << Pt(5) >>)

\* Instructions with malformed operands, each with the instructions before
\* and after it and the well-formed instructions `twin` that leave the
\* interpreter as the malformed one should: none, or the default it resets.
\* with_forms: the page has /XObject resources.
Malformed(before, instr, twin, after, with_forms) ==
    [before |-> before, instr |-> instr, twin |-> twin, after |-> after,
     with_forms |-> with_forms]

MalformedInstrs ==
    { Malformed(<< ThinWidth >>, i, <<>>, << RuleMove, RuleLine, Stroke >>, FALSE) :
        i \in { Op("cm", <<>>),
                Op("cm", << 2, 0, 0, 2, 0 >>),
                OpBad("cm", << 2, 0, 0, 2, 0, 0 >>, {3}),
                Op("re", << Pt(50), Pt(50), Pt(12) >>),
                OpBad("re", << Pt(50), Pt(50), Pt(12), Pt(12) >>, {4}) } }
    \cup
    { Malformed(<< WideWidth >>, i, << ThinWidth >>, << RuleMove, RuleLine, Stroke >>, FALSE) :
        i \in { Op("w", <<>>), OpBad("w", << Pt(5) >>, {1}) } }
    \cup
    { Malformed(<< ThinWidth, RuleMove, RuleLine >>, i, <<>>, << Stroke >>, FALSE) :
        i \in { Op("m", <<>>),
                Op("m", << Pt(50) >>),
                OpBad("m", << Pt(50), Pt(150) >>, {2}),
                Op("l", << Pt(200) >>),
                OpBad("l", << Pt(200), Pt(150) >>, {1}),
                Op("c", << Pt(200), Pt(150), Pt(250), Pt(150), Pt(250) >>),
                OpBad("c", << Pt(200), Pt(150), Pt(250), Pt(150), Pt(250), Pt(100) >>, {6}),
                Op("v", << Pt(250), Pt(150) >>),
                OpBad("v", << Pt(250), Pt(150), Pt(250), Pt(100) >>, {1}),
                Op("y", <<>>),
                OpBad("y", << Pt(250), Pt(150), Pt(250), Pt(100) >>, {3}) } }
    \cup
    { Malformed(<< ThinWidth, RuleMove, RuleLine, Stroke >>, Op("Do", <<>>), <<>>, <<>>, wf) :
        wf \in BOOLEAN }

\* Page 1 holds the malformed instruction, page 2 its twin.
MalformedDocs ==
    { LET forms == IF c.with_forms
                   THEN [n \in {"F"} |-> Form(<<>>, << NestSquare, Stroke >>)]
                   ELSE NoForms
      IN  [kind |-> "malformed", box |-> NoBox,
           pages |-> << Page(SmallPage, c.before \o << c.instr >> \o c.after, forms),
                        Page(SmallPage, c.before \o c.twin \o c.after, forms) >>]
      : c \in MalformedInstrs }

\* A scaling by 2 and a shift by 30 to the right.
Scale2 == << 2, 0, 0, 2, 0, 0 >>

\* Documents that concatenate a matrix under a transform that is not the
\* identity: a cm after a cm, and a form with a /Matrix invoked after a cm.
OrderDocs ==
    { [kind |-> "order", box |-> NoBox,
       pages |-> << Page(LetterPage,
                         << Op("cm", Scale2), Op("cm", NestMatrix), NestSquare, Stroke >>,
                         NoForms) >>],
      [kind |-> "order", box |-> NoBox,
       pages |-> << Page(LetterPage, << Op("cm", Scale2), DoOp("F") >>,
                         [n \in {"F"} |-> Form(NestMatrix, << NestSquare, Stroke >>)]) >>] }

\* Documents that save the graphics state with a path pending: the rule is
\* stroked between the save and the restore, or after the restore, or both.
SavedDocs ==
    { [kind |-> "saved", box |-> NoBox,
       pages |-> << Page(SmallPage,
                         << ThinWidth, RuleMove, RuleLine, Op("q", <<>>),
                            Op("cm", Scale2), WideWidth >>
                         \o inside \o << Op("Q", <<>>) >> \o after,
                         NoForms) >>]
      : inside \in { <<>>, << Stroke >> }, after \in { <<>>, << Stroke >> } }

\* A polyline through the given points, stroked 1 wide as one subpath.
Polyline(points) ==
    << ThinWidth, Op("m", points[1]) >>
        \o [ i \in 1..(Len(points) - 1) |-> Op("l", points[i + 1]) ]
        \o << Stroke >>

\* Strokes whose bounding box is the 12 by 12 square at (50, 50): the four
\* edges of the square, a staircase from its lower left to its upper right
\* corner, and its two diagonals joined by its top edge.
StrokeDocs ==
    { [kind |-> k[1], box |-> NoBox,
       pages |-> << Page(SmallPage, Polyline(k[2]), NoForms) >>]
      : k \in { << "closed box",
                   << << Pt(50), Pt(50) >>, << Pt(62), Pt(50) >>, << Pt(62), Pt(62) >>,
                      << Pt(50), Pt(62) >>, << Pt(50), Pt(50) >> >> >>,
                << "open polyline",
                   << << Pt(50), Pt(50) >>, << Pt(56), Pt(50) >>, << Pt(56), Pt(56) >>,
                      << Pt(62), Pt(56) >>, << Pt(62), Pt(62) >> >> >>,
                << "diagonal strokes",
                   << << Pt(50), Pt(50) >>, << Pt(62), Pt(62) >>, << Pt(50), Pt(62) >>,
                      << Pt(62), Pt(50) >> >> >> } }

Docs == { BoxDoc(b) : b \in Boxes } \cup NestDocs \cup StateDocs
            \cup MalformedDocs \cup OrderDocs \cup SavedDocs \cup StrokeDocs

-----------------------------------------------------------------------------
(* The vector pass of fillable_form_convert:                               *)
(* fields_by_page = [_extract_drawn_fields(reader, p) for p in pages]      *)

\* The parts of the model a specification does not use stay idle.
ResolveOff ==
    /\ cands = <<>>
    /\ resolved = <<>>
    /\ resolved2 = <<>>
    /\ rpc = "off"

MatrixOff ==
    /\ float_bits = 0
    /\ mats = <<>>
    /\ products = [left |-> "none", right |-> "none"]

RasterOff ==
    /\ raster_page = <<>>
    /\ image = <<>>
    /\ raster_fields = <<>>
    /\ raster_pc = "off"

RadioOff ==
    /\ radio_field = <<>>
    /\ radio_group = <<>>
    /\ radio_pc = "off"

FillOff ==
    /\ upload = <<>>
    /\ conv_pc = "off"
    /\ has_fields = FALSE
    /\ conv_fields = <<>>
    /\ raster_index = 0
    /\ calls = <<>>
    /\ out_fields = <<>>
    /\ out_annots = <<>>
    /\ response = <<>>
    /\ usage = 0

TemplatesOff ==
    /\ templates = <<>>
    /\ tpl_usage = <<>>
    /\ tpl_response = <<>>
    /\ requests = 0

PairingOff ==
    /\ layout = <<>>
    /\ pair_done = {"off"}
    /\ vector_out = <<>>
    /\ raster_out = <<>>

CreditsOff ==
    /\ purchases = 0
    /\ service_usage = <<>>
    /\ in_flight = <<>>

ConvertOff ==
    /\ doc = [kind |-> "none", box |-> NoBox, pages |-> <<>>]
    /\ page_index = 0
    /\ stack = <<>>
    /\ buckets = EmptyBuckets
    /\ fields_by_page = <<>>
    /\ phase = "off"
    /\ steps = 0

InitConvert ==
    /\ doc \in Docs
    /\ page_index = 0
    /\ stack = <<>>
    /\ buckets = EmptyBuckets
    /\ fields_by_page = <<>>
    /\ phase = "next"
    /\ steps = 0

CurPage == doc.pages[page_index]
Top == stack[Len(stack)]
StreamOps(f) == IF f.stream = "page" THEN CurPage.content ELSE CurPage.forms[f.stream].ops

\* The for loop of the innermost activation is at an instruction.
AtInstr ==
    /\ phase = "parse"
    /\ stack # <<>>
    /\ ~ DepthExceeded(Top.depth)
    /\ Top.ip <= Len(StreamOps(Top))

Instr == StreamOps(Top)[Top.ip]

\* The innermost activation becomes f and its loop moves on.
Continue(f) == stack' = [stack EXCEPT ![Len(stack)] = [f EXCEPT !.ip = @ + 1]]

\* _extract_drawn_fields of a page without contents, or whose contents do
\* not decode: it returns [].
SkipPage ==
    /\ phase = "next"
    /\ page_index < Len(doc.pages)
    /\ LET page == doc.pages[page_index + 1]
       IN  ~ page.has_contents \/ ~ page.readable
    /\ page_index' = page_index + 1
    /\ fields_by_page' = Append(fields_by_page, <<>>)
    /\ UNCHANGED <<doc, stack, buckets, phase>>
    /\ steps' = steps + 1
    /\ UNCHANGED nonDocVars

\* _extract_drawn_fields up to its call of parse_stream on the page.
BeginPage ==
    /\ phase = "next"
    /\ page_index < Len(doc.pages)
    /\ LET page == doc.pages[page_index + 1]
       IN  page.has_contents /\ page.readable
    /\ page_index' = page_index + 1
    /\ stack' = << NewFrame("page", IdentityMatrix, Pt(1), 0) >>
    /\ buckets' = EmptyBuckets
    /\ phase' = "parse"
    /\ UNCHANGED <<doc, fields_by_page>>
    /\ steps' = steps + 1
    /\ UNCHANGED nonDocVars

OpSave ==
    /\ AtInstr /\ Instr.op = "q"
    /\ Continue(DoSave(Top))
    /\ UNCHANGED <<doc, page_index, buckets, fields_by_page, phase>>
    /\ steps' = steps + 1
    /\ UNCHANGED nonDocVars

OpRestore ==
    /\ AtInstr /\ Instr.op = "Q"
    /\ Continue(DoRestore(Top))
    /\ UNCHANGED <<doc, page_index, buckets, fields_by_page, phase>>
    /\ steps' = steps + 1
    /\ UNCHANGED nonDocVars

OpConcat ==
    /\ AtInstr /\ Instr.op = "cm"
    /\ Continue(DoConcat(Top, AllFloatOperands(Instr)))
    /\ UNCHANGED <<doc, page_index, buckets, fields_by_page, phase>>
    /\ steps' = steps + 1
    /\ UNCHANGED nonDocVars

OpLineWidth ==
    /\ AtInstr /\ Instr.op = "w"
    /\ Continue(DoLineWidth(Top, FloatOperands(Instr, 1)))
    /\ UNCHANGED <<doc, page_index, buckets, fields_by_page, phase>>
    /\ steps' = steps + 1
    /\ UNCHANGED nonDocVars

OpMove ==
    /\ AtInstr /\ Instr.op = "m"
    /\ Continue(DoMove(Top, FloatOperands(Instr, 2)))
    /\ UNCHANGED <<doc, page_index, buckets, fields_by_page, phase>>
    /\ steps' = steps + 1
    /\ UNCHANGED nonDocVars

OpLine ==
    /\ AtInstr /\ Instr.op = "l"
    /\ Continue(DoLine(Top, FloatOperands(Instr, 2)))
    /\ UNCHANGED <<doc, page_index, buckets, fields_by_page, phase>>
    /\ steps' = steps + 1
    /\ UNCHANGED nonDocVars

OpRect ==
    /\ AtInstr /\ Instr.op = "re"
    /\ Continue(DoRect(Top, FloatOperands(Instr, 4)))
    /\ UNCHANGED <<doc, page_index, buckets, fields_by_page, phase>>
    /\ steps' = steps + 1
    /\ UNCHANGED nonDocVars

OpCurve ==
    /\ AtInstr /\ Instr.op \in curve_ops
    /\ Continue(DoCurve(Top, Instr.op,
                       FloatOperands(Instr, IF Instr.op = "c" THEN 6 ELSE 4)))
    /\ UNCHANGED <<doc, page_index, buckets, fields_by_page, phase>>
    /\ steps' = steps + 1
    /\ UNCHANGED nonDocVars

\* S, s, B, B*, b, b*: every subpath goes to classify_path, in order.
OpPaint ==
    /\ AtInstr /\ Instr.op \in paint_ops
    /\ buckets' = ClassifyPaths(buckets, CurPage, WithOpenPath(Top))
    /\ Continue(DoPaint(Top))
    /\ UNCHANGED <<doc, page_index, fields_by_page, phase>>
    /\ steps' = steps + 1
    /\ UNCHANGED nonDocVars

OpReset ==
    /\ AtInstr /\ Instr.op \in reset_ops
    /\ Continue(DoReset(Top))
    /\ UNCHANGED <<doc, page_index, buckets, fields_by_page, phase>>
    /\ steps' = steps + 1
    /\ UNCHANGED nonDocVars

\* An operator parse_stream has no branch for.
OpOther ==
    /\ AtInstr /\ Instr.op \notin handled_ops
    /\ Continue(Top)
    /\ UNCHANGED <<doc, page_index, buckets, fields_by_page, phase>>
    /\ steps' = steps + 1
    /\ UNCHANGED nonDocVars

\* The form object a Do instruction resolves to is usable: it is in the
\* /XObject resources, is a /Form dictionary and its stream decodes.
Invocable(name) ==
    /\ name \in DOMAIN CurPage.forms
    /\ CurPage.forms[name].is_form
    /\ CurPage.forms[name].readable

\* The page has /XObject resources.
HasXObjects == DOMAIN CurPage.forms # {}

\* Do without resources, or of something that is not a usable form object:
\* `continue`.
OpDoSkip ==
    /\ AtInstr /\ Instr.op = "Do"
    /\ ~ HasXObjects \/ ~ MissingOperand(Instr)
    /\ ~ Invocable(Instr.name)
    /\ Continue(Top)
    /\ UNCHANGED <<doc, page_index, buckets, fields_by_page, phase>>
    /\ steps' = steps + 1
    /\ UNCHANGED nonDocVars

\* Do of a form object: parse_stream(x_stream, x_resources, x_ctm,
\* line_width, depth + 1). The activation of the caller waits at the next
\* instruction.
OpDoCall ==
    /\ AtInstr /\ Instr.op = "Do"
    /\ Invocable(Instr.name)
    /\ LET f      == Top
           matrix == CurPage.forms[Instr.name].matrix
           x_ctm  == IF Len(matrix) = 6 THEN _matrix_multiply(f.ctm, matrix) ELSE f.ctm
       IN  stack' = Append([stack EXCEPT ![Len(stack)] = [f EXCEPT !.ip = @ + 1]],
                           NewFrame(Instr.name, x_ctm, f.line_width, f.depth + 1))
    /\ UNCHANGED <<doc, page_index, buckets, fields_by_page, phase>>
    /\ steps' = steps + 1
    /\ UNCHANGED nonDocVars

\* Do without an operand on a page that has /XObject resources:
\* `name = operands[0]` raises outside any try. The exception leaves every
\* activation of parse_stream, _extract_drawn_fields and the list
\* comprehension over the pages; fillable_form_convert catches it and answers
\* 400, so no page's candidates are returned.
OpDoRaise ==
    /\ AtInstr /\ Instr.op = "Do"
    /\ HasXObjects /\ MissingOperand(Instr)
    /\ stack' = <<>>
    /\ buckets' = EmptyBuckets
    /\ fields_by_page' = <<>>
    /\ phase' = "failed"
    /\ UNCHANGED <<doc, page_index>>
    /\ steps' = steps + 1
    /\ UNCHANGED nonDocVars

\* parse_stream returns: its depth is over the cap, or its loop is over.
\* When the activation of the page returns, the pairing pass is next.
StreamReturn ==
    /\ phase = "parse"
    /\ stack # <<>>
    /\ DepthExceeded(Top.depth) \/ Top.ip > Len(StreamOps(Top))
    /\ stack' = SubSeq(stack, 1, Len(stack) - 1)
    /\ phase' = IF Len(stack) = 1 THEN "pairing" ELSE "parse"
    /\ UNCHANGED <<doc, page_index, buckets, fields_by_page>>
    /\ steps' = steps + 1
    /\ UNCHANGED nonDocVars

\* The rest of _extract_drawn_fields: pairing pass, underline loop, dedupe.
FinishPage ==
    /\ phase = "pairing"
    /\ fields_by_page' = Append(fields_by_page, FinishExtract(buckets, CurPage))
    /\ buckets' = EmptyBuckets
    /\ phase' = "next"
    /\ UNCHANGED <<doc, page_index, stack>>
    /\ steps' = steps + 1
    /\ UNCHANGED nonDocVars

\* Every page has been through _extract_drawn_fields.
VectorDone ==
    /\ phase = "next"
    /\ page_index = Len(doc.pages)
    /\ phase' = "extracted"
    /\ UNCHANGED <<doc, page_index, stack, buckets, fields_by_page>>
    /\ steps' = steps + 1
    /\ UNCHANGED nonDocVars

Init == InitConvert /\ ResolveOff /\ MatrixOff /\ RasterOff /\ RadioOff /\ FillOff /\ TemplatesOff /\ PairingOff /\ CreditsOff

Next ==
    \/ SkipPage
    \/ BeginPage
    \/ OpSave
    \/ OpRestore
    \/ OpConcat
    \/ OpLineWidth
    \/ OpMove
    \/ OpLine
    \/ OpRect
    \/ OpCurve
    \/ OpPaint
    \/ OpReset
    \/ OpOther
    \/ OpDoSkip
    \/ OpDoCall
    \/ OpDoRaise
    \/ StreamReturn
    \/ FinishPage
    \/ VectorDone

Spec == Init /\ [][Next]_vars

\* A step of parse_stream: one instruction, or its return.
ParseStep ==
    \/ OpSave \/ OpRestore \/ OpConcat \/ OpLineWidth \/ OpMove \/ OpLine
    \/ OpRect \/ OpCurve \/ OpPaint \/ OpReset \/ OpOther
    \/ OpDoSkip \/ OpDoCall \/ OpDoRaise \/ StreamReturn

-----------------------------------------------------------------------------
(* Candidate resolution of one page (fillable_form_convert, the list        *)
(* comprehension after the detectors).                                      *)

\* Longest candidate list of a page.
MaxCands == 3

\* A text candidate: every detector sets multiline from the height of the
\* rect it emits (height >= 24), and underline candidates are 14 high.
TextCand(r) == [type |-> "text", rect |-> r, multiline |-> (r[4] - r[2] >= Pt(24))]

\* add_checkbox / add_radio and the raster checkbox detector set no
\* multiline key: field.get("multiline") is None and bool(None) is False.
BoxCand(kind, r) == [type |-> kind, rect |-> r, multiline |-> FALSE]

\* Rects the detectors can emit on a page of 612 by 792 units.
RectBox24     == << Pt(10), Pt(10), Pt(100), Pt(34) >>
RectBoxLower  == << Pt(10), Pt(10) + 2, Pt(100), Pt(34) >>
RectBoxHigher == << Pt(10), Pt(10), Pt(100), Pt(34) + 2 >>
RectSquare    == << Pt(12), Pt(12), Pt(24), Pt(24) >>
RectBeside    == << Pt(24), Pt(12), Pt(36), Pt(24) >>
RectApart     == << Pt(120), Pt(12), Pt(132), Pt(24) >>
\* A rect clamped to zero height at the top edge of the page: add_checkbox
\* and add_radio keep it, and so does the raster underline loop.
RectFlat      == << Pt(12), Pt(792), Pt(24), Pt(792) >>

TextRects == { RectBox24, RectBoxLower, RectBoxHigher, RectSquare,
               RectBeside, RectApart, RectFlat }
CheckRects == { RectSquare, RectBeside, RectApart, RectFlat }
RadioRects == { RectSquare, RectApart }

Candidates ==
    { TextCand(r) : r \in TextRects }
      \cup { BoxCand("checkbox", r) : r \in CheckRects }
      \cup { BoxCand("radio", r) : r \in RadioRects }

CandLists == UNION { [1..n -> Candidates] : n \in 0..MaxCands }

InitResolve ==
    /\ cands \in CandLists
    /\ resolved = <<>>
    /\ resolved2 = <<>>
    /\ rpc = "start"
    /\ ConvertOff
    /\ MatrixOff
    /\ RasterOff
    /\ RadioOff
    /\ FillOff
    /\ TemplatesOff
    /\ PairingOff
    /\ CreditsOff

\* The resolver applied to the candidates of the page.
Resolve ==
    /\ rpc = "start"
    /\ resolved' = ResolvePage(cands)
    /\ rpc' = "once"
    /\ UNCHANGED <<cands, resolved2>>
    /\ UNCHANGED nonResVars

\* The resolver applied to its own output.
ResolveAgain ==
    /\ rpc = "once"
    /\ resolved2' = ResolvePage(resolved)
    /\ rpc' = "twice"
    /\ UNCHANGED <<cands, resolved>>
    /\ UNCHANGED nonResVars

NextResolve == Resolve \/ ResolveAgain

SpecResolve == InitResolve /\ [][NextResolve]_vars

-----------------------------------------------------------------------------
(* Claims about candidate resolution                                       *)

\* Two rects share a region of positive area.
Overlap(a, b) ==
    /\ Max2(a[1], b[1]) < Min2(a[3], b[3])
    /\ Max2(a[2], b[2]) < Min2(a[4], b[4])

IsBox(f) == f.type \in {"checkbox", "radio"}

RoundedRect(f) ==
    << Round1(f.rect[1]), Round1(f.rect[2]), Round1(f.rect[3]), Round1(f.rect[4]) >>

\* C2: after resolution no Text candidate of the output intersects a Checkbox
\* or Radio candidate of the output, and a Text and a Checkbox candidate at the
\* same rect resolve to the Checkbox only (no Text at that rect is left).
C2_NoTextOverBox ==
    rpc # "start" =>
        /\ \A i, j \in 1..Len(resolved) :
              (resolved[i].type = "text" /\ IsBox(resolved[j]))
                 => /\ ~ Overlap(resolved[i].rect, resolved[j].rect)
                    /\ ~ _rects_intersect(resolved[i].rect, resolved[j].rect)
        /\ \A i, j \in 1..Len(cands) :
              (/\ cands[i].type = "text"
               /\ cands[j].type = "checkbox"
               /\ cands[i].rect = cands[j].rect)
                 => /\ \E k \in 1..Len(resolved) : resolved[k] = cands[j]
                    /\ \A k \in 1..Len(resolved) :
                          resolved[k].rect = cands[i].rect => resolved[k].type # "text"

\* C3 as stated: the resolved list never holds two fields with the same kind
\* and the same rect rounded to 0.1 unit.
C3_Original ==
    rpc # "start" =>
        \A i, j \in 1..Len(resolved) :
            (i # j /\ resolved[i].type = resolved[j].type)
               => RoundedRect(resolved[i]) # RoundedRect(resolved[j])

\* C3 amended: the resolved list never holds two fields with the same kind,
\* the same multiline flag and the same rect rounded to 0.1 unit.
C3_UniqueKindMultilineRect ==
    rpc # "start" =>
        \A i, j \in 1..Len(resolved) :
            (/\ i # j
             /\ resolved[i].type = resolved[j].type
             /\ resolved[i].multiline = resolved[j].multiline)
               => RoundedRect(resolved[i]) # RoundedRect(resolved[j])

\* Witness of C3: two candidates with different rects but the same kind,
\* multiline flag and rounded rect were given, and one of them was dropped.
C3_Witness ==
    /\ rpc = "once"
    /\ \E i, j \in 1..Len(cands) :
          /\ i < j
          /\ cands[i].rect # cands[j].rect
          /\ cands[i].type = cands[j].type
          /\ cands[i].multiline = cands[j].multiline
          /\ RoundedRect(cands[i]) = RoundedRect(cands[j])
          /\ cands[i] \in SeqRange(resolved)
          /\ cands[j] \notin SeqRange(resolved)

\* C4: resolving the resolver's own output returns exactly that output.
C4_Idempotent == rpc = "twice" => resolved2 = resolved

\* Witness of C4: the first resolution dropped a duplicate and an overlapped
\* Text candidate, and the second resolution has run on what was left.
C4_Witness ==
    /\ rpc = "twice"
    /\ Len(cands) = MaxCands
    /\ Len(resolved) = 1
    /\ resolved[1].type = "checkbox"
    /\ \E i, j \in 1..Len(cands) :
          i # j /\ cands[i].type = "text" /\ cands[j].type = "text"
               /\ cands[i].rect # cands[j].rect

-----------------------------------------------------------------------------
(* Claims about the vector pass                                            *)

\* The candidates of a page as a set of (kind, rect) pairs.
KindRects(page_fields) ==
    { << page_fields[i].type, page_fields[i].rect >> : i \in 1..Len(page_fields) }

InsideBounds(rect, b) ==
    /\ b[1] <= rect[1] /\ rect[3] <= b[3]
    /\ b[2] <= rect[2] /\ rect[4] <= b[4]

\* C1: every candidate _extract_drawn_fields returns has a rect inside the
\* page bounds with strictly positive width and strictly positive height.
C1_RectsInsideAndPositive ==
    \A p \in 1..Len(fields_by_page) :
        \A i \in 1..Len(fields_by_page[p]) :
            LET rect == fields_by_page[p][i].rect
            IN  /\ InsideBounds(rect, doc.pages[p].bounds)
                /\ rect[3] - rect[1] > 0
                /\ rect[4] - rect[2] > 0

\* The documents whose forms invoke themselves or each other without end.
CyclicKinds == {"self", "mutual"}

\* The square a form strokes at nesting level k.
NestLevelRect(k) ==
    << Pt(20) + k * NestStep, Pt(20), Pt(32) + k * NestStep, Pt(32) >>

\* No activation is deeper than one level past the cap, and the activation
\* past the cap has not run an instruction.
NestingBounded ==
    \A i \in 1..Len(stack) :
        /\ stack[i].depth = i - 1
        /\ stack[i].depth <= depth_cap + 1
        /\ DepthExceeded(stack[i].depth) => stack[i].ip = 1

\* Of a cyclic document exactly the squares of the levels 1..8 are returned.
NestingGathered ==
    /\ (phase = "extracted" /\ doc.kind \in CyclicKinds)
          => KindRects(fields_by_page[1])
               = { << "checkbox", NestLevelRect(k) >> : k \in 1..8 }
    /\ (phase = "extracted" /\ doc.kind = "twice") => fields_by_page = << <<>> >>

\* The longest conversion of a document of the model, in steps.
MaxSteps == 4000

\* The kinds of the documents whose pages invoke form objects.
NestKinds == { d.kind : d \in NestDocs }

\* The walk is never stuck, ends within MaxSteps, and no instruction of a
\* document with nested forms raises.
NestingEnds ==
    /\ steps <= MaxSteps
    /\ phase \in {"next", "parse", "pairing", "extracted", "failed"}
    /\ doc.kind \in NestKinds => phase # "failed"
    /\ phase = "parse" => ENABLED ParseStep
    /\ phase = "pairing" => stack = <<>>
    /\ phase = "next" => stack = <<>> /\ page_index <= Len(doc.pages)

\* C6: the interpretation of every page ends, also when forms invoke
\* themselves or each other; the walk never descends past the depth cap, no
\* instruction raises, and the candidates of the levels within the cap are
\* returned.
C6_NestingTerminates == NestingEnds /\ NestingBounded /\ NestingGathered

\* Witness of C6: a form that invokes itself has been walked down to the cap,
\* the walk is over and the eight squares of the levels 1..8 are the result.
C6_Witness ==
    /\ phase = "extracted"
    /\ doc.kind = "self"
    /\ Len(fields_by_page[1]) = 8

\* The box of a box document is a thin bar (the rectangle primitive is taken
\* as one horizontal line), or lies in the checkbox window.
ThinBar(b, page) == b.h <= max_line_thickness /\ b.w >= min_line_len(page)
CheckboxSized(b) == BoxWindow(b.w, b.h)

\* C7 as stated: a box drawn as one rectangle primitive (page 1) and the same
\* box drawn as four line segments (page 2) give the same candidates.
C7_Original ==
    (phase = "extracted" /\ doc.kind = "box" /\ ~ doc.box.third)
        => KindRects(fields_by_page[1]) = KindRects(fields_by_page[2])

\* C7 amended: they give the same candidates when the box is neither a thin
\* bar nor inside the checkbox window.
C7_SameCandidatesOutsideWindows ==
    (/\ phase = "extracted" /\ doc.kind = "box" /\ ~ doc.box.third
     /\ ~ ThinBar(doc.box, doc.pages[1])
     /\ ~ CheckboxSized(doc.box))
        => KindRects(fields_by_page[1]) = KindRects(fields_by_page[2])

\* Witness of C7: a box outside both windows was drawn both ways and each
\* page gave one multiline Text candidate.
C7_Witness ==
    /\ phase = "extracted" /\ doc.kind = "box" /\ ~ doc.box.third
    /\ ~ ThinBar(doc.box, doc.pages[1])
    /\ ~ CheckboxSized(doc.box)
    /\ Len(fields_by_page[1]) = 1
    /\ Len(fields_by_page[2]) = 1
    /\ fields_by_page[2][1].type = "text"
    /\ fields_by_page[2][1].multiline

\* The rect of a box inset by d on every side.
Inset(b, d) == << b.x + d, b.y + d, b.x + b.w - d, b.y + b.h - d >>

\* Page 2 gave exactly one candidate, a Text with the given rect, and it is
\* not multiline when it is less than 24 high.
OneTextAt(rect) ==
    /\ Len(fields_by_page[2]) = 1
    /\ fields_by_page[2][1].type = "text"
    /\ fields_by_page[2][1].rect = rect
    /\ (rect[4] - rect[2] < Pt(24)) => ~ fields_by_page[2][1].multiline

InsideMargins(b, page) ==
    LET pb == PageBounds(page)
    IN  /\ pb[1] + Pt(2) < b.x /\ b.x + b.w < pb[3] - Pt(2)
        /\ pb[2] + Pt(2) < b.y /\ b.y + b.h < pb[4] - Pt(2)

\* The lines of the box can pair: at least 20 long and at least the minimum
\* line length, stroked at most 2.5 wide, more than 2 units inside the page
\* edges, and no third line.
PairableBox ==
    /\ phase = "extracted" /\ doc.kind = "box" /\ ~ doc.box.third
    /\ doc.box.w >= Pt(20) /\ doc.box.w >= min_line_len(doc.pages[2])
    /\ doc.box.lw <= rect_max_stroke
    /\ InsideMargins(doc.box, doc.pages[2])

-----------------------------------------------------------------------------
(* Malformed operands                                                      *)

\* The operator of the malformed instruction of a malformed document.
MalformedOp ==
    LET content == doc.pages[1].content
        twin    == doc.pages[2].content
        at      == CHOOSE i \in 1..Len(content) :
                       /\ \A j \in 1..(i - 1) : content[j] = twin[j]
                       /\ i > Len(twin) \/ content[i] # twin[i]
    IN  content[at].op

\* The page with the malformed instruction gave the candidates of the page
\* with its twin, and these are the candidates of the rule.
SameAsTwin ==
    /\ Len(fields_by_page) = 2
    /\ fields_by_page[1] = fields_by_page[2]
    /\ Len(fields_by_page[2]) = 1
    /\ fields_by_page[2][1].type = "text"

\* C15: an instruction with missing, too few or non-numeric operands, for
\* each of cm, w, m, l, re, c, v, y and Do, does not abort the interpretation,
\* and the page gives the candidates it gives without the instruction (for w:
\* with the default line width).
C15_MalformedSkipped ==
    doc.kind = "malformed"
        => /\ phase # "failed"
           /\ phase = "extracted" => SameAsTwin

\* The same for every operator but Do, and for a Do without operand on a page
\* that has no /XObject resources.
MalformedSkippedExceptDo ==
    (doc.kind = "malformed" /\ ~ (MalformedOp = "Do" /\ doc.pages[1].forms # NoForms))
        => /\ phase # "failed"
           /\ phase = "extracted" => SameAsTwin

\* A malformed instruction of the given operator was skipped and the rule of
\* its page was returned.
MalformedDone(op) ==
    /\ doc.kind = "malformed"
    /\ phase = "extracted"
    /\ MalformedOp = op
    /\ SameAsTwin

\* A Do without operand made the conversion fail.
MalformedDoRaised ==
    /\ doc.kind = "malformed"
    /\ phase = "failed"
    /\ fields_by_page = <<>>

-----------------------------------------------------------------------------
(* Order of composition                                                    *)

\* Three points that are not on one line, and a matrix applied to a point.
SamplePoints == { << 0, 0 >>, << Pt(5), 0 >>, << 0, Pt(5) >> }
Apply(m, p) == _transform_point(m, p[1], p[2])

\* ctm maps every point as M applied to (N applied to the point).
InnerFirst(M, N, ctm) ==
    \A p \in SamplePoints : Apply(ctm, p) = Apply(M, Apply(N, p))

\* ctm maps every point as N applied to (M applied to the point).
OuterFirst(M, N, ctm) ==
    \A p \in SamplePoints : Apply(ctm, p) = Apply(N, Apply(M, p))

\* C20: a cm with matrix N under the current transform M leaves a transform
\* that maps a point p as M applied to (N applied to p), and so does the
\* invocation of a form with /Matrix N under M for the form's instructions.
C20_InnerMatrixFirst ==
    [][ /\ (AtInstr /\ Instr.op = "cm" /\ Len(AllFloatOperands(Instr)) = 6)
            => InnerFirst(Top.ctm, Instr.args, stack'[Len(stack')].ctm)
        /\ (AtInstr /\ Instr.op = "Do" /\ Invocable(Instr.name)
                /\ Len(CurPage.forms[Instr.name].matrix) = 6)
            => InnerFirst(Top.ctm, CurPage.forms[Instr.name].matrix,
                          stack'[Len(stack')].ctm) ]_vars

\* What the interpreter does: the current transform acts first.
ComposesOuterFirst ==
    [][ /\ (AtInstr /\ Instr.op = "cm" /\ Len(AllFloatOperands(Instr)) = 6)
            => OuterFirst(Top.ctm, Instr.args, stack'[Len(stack')].ctm)
        /\ (AtInstr /\ Instr.op = "Do" /\ Invocable(Instr.name)
                /\ Len(CurPage.forms[Instr.name].matrix) = 6)
            => OuterFirst(Top.ctm, CurPage.forms[Instr.name].matrix,
                          stack'[Len(stack')].ctm) ]_vars

\* The square (20, 20, 32, 32), scaled by 2 and then shifted by 30, and
\* shifted by 30 and then scaled by 2.
ScaledThenShifted == << Pt(70), Pt(40), Pt(94), Pt(64) >>
ShiftedThenScaled == << Pt(100), Pt(40), Pt(124), Pt(64) >>

-----------------------------------------------------------------------------
(* Paint operators and the graphics state stack                            *)

\* The path-painting operators of a content stream: stroke, fill, and fill
\* and stroke.
stroke_operators == {"S", "s"}
fill_operators == {"f", "F", "f*"}
fill_and_stroke_operators == {"B", "B*", "b", "b*"}

\* The innermost activation after the step has no pending path.
NothingPending ==
    LET g == stack'[Len(stack)]
    IN  g.subpaths = <<>> /\ g.current_path = <<>>

\* C21: after a stroke, a fill or a fill-and-stroke operator the accumulated
\* subpaths and the current path of the interpreter are empty, so that no
\* later paint operator classifies the path.
C21_PaintLeavesNothingPending ==
    [][ (AtInstr /\ Instr.op \in stroke_operators \cup fill_operators
                                   \cup fill_and_stroke_operators)
            => NothingPending ]_vars

\* The same for the operators parse_stream takes for paint operators.
PaintOpsLeaveNothingPending ==
    [][ (AtInstr /\ Instr.op \in paint_ops) => NothingPending ]_vars

\* A fill was met with a path pending, and the path is still pending.
FillLeftPath ==
    /\ phase = "parse" /\ stack # <<>>
    /\ Top.ip > 1 /\ Top.ip - 1 <= Len(StreamOps(Top))
    /\ StreamOps(Top)[Top.ip - 1].op \in fill_operators
    /\ Top.subpaths # <<>>

\* The graphics state of an activation: transform, line width, current
\* point, current path and accumulated subpaths.
GraphicsState(f) ==
    << f.ctm, f.line_width, f.current_point, f.current_path, f.subpaths >>

\* A save pushes the state and leaves it as it is.
SaveKeepsState ==
    (AtInstr /\ Instr.op = "q")
        => LET g == stack'[Len(stack)]
           IN  /\ g.state_stack = Append(Top.state_stack, GraphicsState(Top))
               /\ GraphicsState(g) = GraphicsState(Top)

\* A restore with a saved state replaces the state by the one saved last.
RestoreReplacesState ==
    (AtInstr /\ Instr.op = "Q" /\ Top.state_stack # <<>>)
        => LET g == stack'[Len(stack)]
           IN  /\ GraphicsState(g) = Top.state_stack[Len(Top.state_stack)]
               /\ g.state_stack = SubSeq(Top.state_stack, 1, Len(Top.state_stack) - 1)

\* C22: a save pushes a snapshot of the graphics state and leaves the current
\* state unchanged, so that a path built before it is painted by a paint
\* operator between the save and the restore; the matching restore replaces
\* the current state by the snapshot.
C22_SaveAndRestore == [][ SaveKeepsState /\ RestoreReplacesState ]_vars

\* What holds of the restore alone.
RestoreAlwaysReplaces == [][ RestoreReplacesState ]_vars

\* The rule built before the save was stroked between save and restore only,
\* and the page gave no candidate.
StrokeAfterSaveLost ==
    /\ phase = "extracted" /\ doc.kind = "saved"
    /\ doc.pages[1].content[Len(doc.pages[1].content)].op = "Q"
    /\ doc.pages[1].content[Len(doc.pages[1].content) - 1].op = "S"
    /\ fields_by_page = << <<>> >>

\* The rule was stroked after the restore and gave its candidate.
StrokeAfterRestoreKept ==
    /\ phase = "extracted" /\ doc.kind = "saved"
    /\ doc.pages[1].content[Len(doc.pages[1].content)].op = "S"
    /\ Len(fields_by_page[1]) = 1

-----------------------------------------------------------------------------
(* Checkboxes from line groups                                             *)

\* The first page gave a Checkbox candidate.
GaveCheckbox ==
    \E i \in 1..Len(fields_by_page[1]) : fields_by_page[1][i].type = "checkbox"

\* C23: a group of lines that is an open polyline, or diagonal strokes, is
\* not classified as a Checkbox although its bounding box has the size and
\* aspect ratio of one.
C23_CheckboxOnlyFromClosedBox ==
    (phase = "extracted" /\ doc.kind \in {"open polyline", "diagonal strokes"})
        => ~ GaveCheckbox

\* The four edges of the square gave the Checkbox of the square.
ClosedBoxIsCheckbox ==
    /\ phase = "extracted" /\ doc.kind = "closed box"
    /\ KindRects(fields_by_page[1])
          = { << "checkbox", << Pt(50), Pt(50), Pt(62), Pt(62) >> >> }

\* The staircase, and the diagonals, gave the same Checkbox.
StrokesAreCheckbox(kind) ==
    /\ phase = "extracted" /\ doc.kind = kind
    /\ KindRects(fields_by_page[1])
          = { << "checkbox", << Pt(50), Pt(50), Pt(62), Pt(62) >> >> }

-----------------------------------------------------------------------------
(* Consumption of lines by the pairing pass                                *)

\* parse_stream has returned and the page has line segments: the pairing pass
\* is next. Its outcome, and the lines it works on.
AtPairing == phase = "pairing" /\ buckets.line_segments # <<>>
Paired == PairingResult(buckets, CurPage)
Horizontals == horizontal_lines(buckets, CurPage)

\* The emitted Text rectangles that have line idx as an edge.
PairsOf(idx) ==
    { k \in 1..Len(Paired.pairs) : idx \in { Paired.pairs[k][1], Paired.pairs[k][2] } }

\* C24: no horizontal line is an edge of two Text rectangles emitted by the
\* pairing pass.
C24_LineInAtMostOnePair ==
    AtPairing => \A idx \in 1..Len(Horizontals) : Cardinality(PairsOf(idx)) <= 1

\* A line is the top edge of one emitted rectangle and the bottom edge of
\* another.
LineSharedByTwo ==
    /\ AtPairing
    /\ \E idx \in 1..Len(Horizontals) : Cardinality(PairsOf(idx)) = 2

\* The underline candidate of a horizontal line.
UnderlineOf(seg) ==
    add_text_field_from_line(<<>>, CurPage, << seg.x1, seg.y, seg.x2, seg.y >>, seg.stroke)

\* C25: every horizontal line stroked within the threshold is an edge of an
\* emitted Text rectangle or gives its underline candidate to the loop that
\* follows; none is marked consumed without a rectangle emitted for its pair.
C25_LinesAccountedFor ==
    AtPairing =>
        \A idx \in 1..Len(Horizontals) :
            Horizontals[idx].stroke <= underline_max_stroke
                => /\ idx \in Paired.used_lines => PairsOf(idx) # {}
                   /\ idx \notin Paired.used_lines
                        => LET after == UnderlineLoop(Horizontals, CurPage, 1,
                                                      Paired.used_lines, Paired.fields)
                           IN  \A k \in 1..Len(UnderlineOf(Horizontals[idx])) :
                                  \E n \in 1..Len(after) :
                                      after[n] = UnderlineOf(Horizontals[idx])[k]

\* Two lines were marked consumed and no rectangle was emitted.
ConsumedWithoutRectangle ==
    /\ AtPairing
    /\ Paired.used_lines # {}
    /\ Paired.pairs = <<>>

\* What holds: every line that is an edge of an emitted rectangle is marked
\* consumed, and two lines are marked at a time.
EmittedAreConsumed ==
    AtPairing =>
        \A k \in 1..Len(Paired.pairs) :
            { Paired.pairs[k][1], Paired.pairs[k][2] } \subseteq Paired.used_lines

-----------------------------------------------------------------------------
(* Transform composition                                                   *)

\* Significant bits of a float in the composition runs. Python's floats have
\* 53; the model keeps fewer so that products of small whole numbers round.
mantissa_bits == 12

\* Scalings, a quarter turn, a translation and two general matrices.
Matrices ==
    { IdentityMatrix,
      << 3, 0, 0, 3, 0, 0 >>,
      << 65, 0, 0, 65, 0, 0 >>,
      << 0, 1, -1, 0, 0, 0 >>,
      << 1, 0, 0, 1, 50, 70 >>,
      << 2, 1, 1, 3, 45, 25 >>,
      << 65, 3, -5, 91, 33, -77 >> }

InitMatrix ==
    /\ float_bits = mantissa_bits
    /\ mats \in Matrices \X Matrices \X Matrices
    /\ products = [left |-> "none", right |-> "none"]
    /\ ResolveOff
    /\ ConvertOff
    /\ RasterOff
    /\ RadioOff
    /\ FillOff
    /\ TemplatesOff
    /\ PairingOff
    /\ CreditsOff

\* concat(concat(M, N), P)
ComposeLeft ==
    /\ mats # <<>>
    /\ products.left = "none"
    /\ products' = [products EXCEPT
            !.left = _matrix_multiply(_matrix_multiply(mats[1], mats[2]), mats[3])]
    /\ UNCHANGED << float_bits, mats >>
    /\ UNCHANGED nonMatVars

\* concat(M, concat(N, P))
ComposeRight ==
    /\ mats # <<>>
    /\ products.right = "none"
    /\ products' = [products EXCEPT
            !.right = _matrix_multiply(mats[1], _matrix_multiply(mats[2], mats[3]))]
    /\ UNCHANGED << float_bits, mats >>
    /\ UNCHANGED nonMatVars

NextMatrix == ComposeLeft \/ ComposeRight

SpecMatrix == InitMatrix /\ [][NextMatrix]_vars

Composed == products.left # "none" /\ products.right # "none"

ExactAbsProduct(m1, m2) ==
    << Abs(m1[1]) * Abs(m2[1]) + Abs(m1[2]) * Abs(m2[3]),
       Abs(m1[1]) * Abs(m2[2]) + Abs(m1[2]) * Abs(m2[4]),
       Abs(m1[3]) * Abs(m2[1]) + Abs(m1[4]) * Abs(m2[3]),
       Abs(m1[3]) * Abs(m2[2]) + Abs(m1[4]) * Abs(m2[4]),
       Abs(m1[5]) * Abs(m2[1]) + Abs(m1[6]) * Abs(m2[3]) + Abs(m2[5]),
       Abs(m1[5]) * Abs(m2[2]) + Abs(m1[6]) * Abs(m2[4]) + Abs(m2[6]) >>

TermSize == ExactAbsProduct(ExactAbsProduct(mats[1], mats[2]), mats[3])

-----------------------------------------------------------------------------
(* Raster checkbox detection (_detect_checkbox_fields_from_raster)         *)

\* Pixels per PDF unit of the rendered bitmap, and the side of one pixel in
\* model units.
scale == 2
Pixel == Unit \div scale

\* A sample below the threshold is ink.
threshold == 170
min_px == 5 * scale
max_px == 30 * scale

\* The bitmap of a page: one sample per pixel, row 0 at the top. The samples
\* of `ink` have the value `gray`, all others are white.
white == 255
Sample(img, p) == IF p \in img.ink THEN img.gray ELSE white

\* The pixels the scan treats as ink.
DarkPixels(img) == { p \in img.ink : ~ (Sample(img, p) >= threshold) }

\* The four neighbours of a pixel that lie inside the bitmap.
Neighbours(img, p) ==
    { q \in { << p[1] - 1, p[2] >>, << p[1] + 1, p[2] >>,
              << p[1], p[2] - 1 >>, << p[1], p[2] + 1 >> } :
        ~ (q[1] < 0 \/ q[1] >= img.width \/ q[2] < 0 \/ q[2] >= img.height) }

\* The inner while loop: the ink pixels connected to the start pixel.
RECURSIVE FloodFill(_, _, _, _)
FloodFill(img, dark, frontier, visited) ==
    IF frontier = {} THEN visited
    ELSE LET reached == { q \in UNION { Neighbours(img, p) : p \in frontier } :
                            q \in dark /\ q \notin visited }
         IN  FloodFill(img, dark, reached, visited \cup reached)

\* The first ink pixel in scan order (rows from the top, left to right).
FirstInScan(img, dark) ==
    CHOOSE p \in dark :
        \A q \in dark : p[2] * img.width + p[1] <= q[2] * img.width + q[1]

\* to_pdf_rect: divide by the scale and flip the rows; the page origin does
\* not enter.
to_pdf_rect(img, x1, y1, x2, y2) ==
    << x1 * Pixel, (img.height - y2) * Pixel, x2 * Pixel, (img.height - y1) * Pixel >>

\* The size, shape and fill tests of one component; TRUE when it is kept.
ComponentIsBox(component) ==
    LET xs     == { p[1] : p \in component }
        ys     == { p[2] : p \in component }
        box_w  == SetMax(xs) - SetMin(xs) + 1
        box_h  == SetMax(ys) - SetMin(ys) + 1
        count  == Cardinality(component)
        area   == box_w * box_h
    IN  /\ ~ (box_w < min_px \/ box_h < min_px)
        /\ ~ (box_w > max_px \/ box_h > max_px)
        /\ ~ (box_w * 10 < 7 * box_h \/ box_w * 10 > 13 * box_h)
        /\ ~ (area <= 0)
        /\ ~ (count * 100 > 35 * area)

ComponentField(img, page, component) ==
    LET xs == { p[1] : p \in component }
        ys == { p[2] : p \in component }
    IN  [type |-> "checkbox",
         rect |-> _clamp_rect(to_pdf_rect(img, SetMin(xs), SetMin(ys),
                                          SetMax(xs) + 1, SetMax(ys) + 1), page),
         multiline |-> FALSE]

\* The scan over the rows and columns: one component per unvisited ink pixel.
RECURSIVE ScanFrom(_, _, _, _)
ScanFrom(img, page, dark, fields) ==
    IF dark = {} THEN fields
    ELSE LET start     == FirstInScan(img, dark)
             component == FloodFill(img, dark, {start}, {start})
         IN  ScanFrom(img, page, dark \ component,
                      IF ComponentIsBox(component)
                      THEN Append(fields, ComponentField(img, page, component))
                      ELSE fields)

_detect_checkbox_fields_from_raster(img, page) ==
    _dedupe_field_specs(ScanFrom(img, page, DarkPixels(img), <<>>))

\* The rasterizer: the page box at `scale` pixels per unit. The drawing of the
\* model's pages is one square at pixel (x, y), w by h pixels, drawn as an
\* outline t pixels thick (t = 0: filled), in one gray.
SquareInk(x, y, w, h, t) ==
    { p \in (x .. x + w - 1) \X (y .. y + h - 1) :
        \/ t = 0
        \/ p[1] < x + t \/ p[1] > x + w - 1 - t
        \/ p[2] < y + t \/ p[2] > y + h - 1 - t }

Render(page, square, gray) ==
    [width  |-> ((page.bounds[3] - page.bounds[1]) * scale) \div Unit,
     height |-> ((page.bounds[4] - page.bounds[2]) * scale) \div Unit,
     ink    |-> SquareInk(square.x, square.y, square.w, square.h, square.t),
     gray   |-> gray,
     square |-> square]

\* Pages of 40 by 35 units, one with its box at the origin and one with the
\* box away from it.
RasterBoxes ==
    { << 0, 0, Pt(40), Pt(35) >>, << Pt(100), Pt(100), Pt(140), Pt(135) >> }

SquareSizes ==
    { << 8, 8 >>, << 10, 10 >>, << 12, 10 >>, << 16, 16 >>, << 12, 16 >>,
      << 10, 16 >>, << 25, 24 >>, << 60, 60 >>, << 62, 62 >> }

\* Top-left corners: the bitmap's corner, two inner places, and flush with
\* the right and bottom edges.
SquareCorners(w, h) ==
    { << 0, 0 >>, << 7, 3 >>, << 12, 6 >>, << 80 - w, 70 - h >> }

Squares ==
    { [x |-> c[1], y |-> c[2], w |-> sz[1], h |-> sz[2], t |-> t] :
        c \in UNION { SquareCorners(s[1], s[2]) : s \in SquareSizes },
        sz \in SquareSizes, t \in 0..3 }

RasterInputs ==
    { sq \in Squares : sq.x + sq.w <= 80 /\ sq.y + sq.h <= 70 }

InitRaster ==
    /\ raster_page \in { Page(b, <<>>, NoForms) : b \in RasterBoxes }
    /\ image = <<>>
    /\ raster_fields = <<>>
    /\ raster_pc = "render"
    /\ ResolveOff
    /\ ConvertOff
    /\ MatrixOff
    /\ RadioOff
    /\ FillOff
    /\ TemplatesOff
    /\ PairingOff
    /\ CreditsOff

\* pdf_page.render(scale=scale) and the conversion to grayscale.
RenderPage ==
    /\ raster_pc = "render"
    /\ \E sq \in RasterInputs, gray \in { 0, threshold - 1, threshold } :
           image' = Render(raster_page, sq, gray)
    /\ raster_pc' = "scan"
    /\ UNCHANGED << raster_page, raster_fields >>
    /\ UNCHANGED nonRasVars

DetectCheckboxes ==
    /\ raster_pc = "scan"
    /\ raster_fields' = _detect_checkbox_fields_from_raster(image, raster_page)
    /\ raster_pc' = "detected"
    /\ UNCHANGED << raster_page, image >>
    /\ UNCHANGED nonRasVars

NextRaster == RenderPage \/ DetectCheckboxes

SpecRaster == InitRaster /\ [][NextRaster]_vars

\* The bitmap shows one outlined square that passes the tests of the claim:
\* ink below the threshold, w and h inside the size window, aspect ratio
\* inside 0.7 to 1.3 and fill ratio at most 0.35.
InkCount(sq) ==
    IF sq.t = 0 \/ 2 * sq.t >= sq.w \/ 2 * sq.t >= sq.h THEN sq.w * sq.h
    ELSE sq.w * sq.h - (sq.w - 2 * sq.t) * (sq.h - 2 * sq.t)

OutlinedSquareInWindow ==
    LET sq == image.square
    IN  /\ image.gray < threshold
        /\ sq.t > 0
        /\ sq.w >= min_px /\ sq.h >= min_px /\ sq.w <= max_px /\ sq.h <= max_px
        /\ sq.w * 10 >= 7 * sq.h /\ sq.w * 10 <= 13 * sq.h
        /\ InkCount(sq) * 100 <= 35 * sq.w * sq.h

\* The pixel box of the square, divided by the scale and flipped vertically.
PixelBoxRect ==
    LET sq == image.square
    IN  << (sq.x * Unit) \div scale,
           ((image.height - (sq.y + sq.h)) * Unit) \div scale,
           ((sq.x + sq.w) * Unit) \div scale,
           ((image.height - sq.y) * Unit) \div scale >>

RasterCheckboxes ==
    LET IsCheckbox(f) == f.type = "checkbox"
    IN  SelectSeq(raster_fields, IsCheckbox)

\* C9: a bitmap with one outlined square inside the windows yields exactly
\* one Checkbox candidate, whose rect is the pixel box divided by the scale
\* and flipped vertically.
C9_OneCheckboxAtPixelBox ==
    (raster_pc = "detected" /\ OutlinedSquareInWindow)
        => /\ Len(RasterCheckboxes) = 1
           /\ RasterCheckboxes[1].rect = PixelBoxRect

\* The same for pages whose box starts at the origin, where the clamp leaves
\* the converted rect alone.
C9_AtOriginPages ==
    (raster_pc = "detected" /\ OutlinedSquareInWindow
        /\ raster_page.bounds[1] = 0 /\ raster_page.bounds[2] = 0)
        => /\ Len(RasterCheckboxes) = 1
           /\ RasterCheckboxes[1].rect = PixelBoxRect

\* A square outside the windows, a filled one, or one too light, yields no
\* candidate.
RasterRejects ==
    (raster_pc = "detected" /\ ~ OutlinedSquareInWindow) => raster_fields = <<>>

-----------------------------------------------------------------------------
(* Radio group synthesis (_build_acroform, the radio branch)               *)

\* Strings are sequences of characters. The characters of the model: word
\* characters ([A-Za-z0-9_]) and two that are not.
WordChars == { "A", "B", "O", "U", "f", "p", "t", "i", "o", "n", "_",
               "a", "b", "c", "d", "e", "l", "r", "u",
               "0", "1", "2", "3", "4", "5", "6", "7", "8", "9" }

\* re.sub(r"[^A-Za-z0-9_]+", "_", text): every run of other characters
\* becomes one underscore.
RECURSIVE SubRuns(_, _)
SubRuns(text, in_run) ==
    IF text = <<>> THEN <<>>
    ELSE IF Head(text) \in WordChars
         THEN << Head(text) >> \o SubRuns(Tail(text), FALSE)
         ELSE IF in_run THEN SubRuns(Tail(text), TRUE)
              ELSE << "_" >> \o SubRuns(Tail(text), TRUE)

\* .strip("_")
RECURSIVE LStrip(_)
LStrip(text) ==
    IF text # <<>> /\ Head(text) = "_" THEN LStrip(Tail(text)) ELSE text

RECURSIVE RStrip(_)
RStrip(text) ==
    IF text # <<>> /\ text[Len(text)] = "_"
    THEN RStrip(SubSeq(text, 1, Len(text) - 1))
    ELSE text

Strip(text) == RStrip(LStrip(text))

\* The decimal digits of a number, as f"{suffix}" writes them.
RECURSIVE Decimal(_)
Decimal(n) ==
    LET digit == << "0", "1", "2", "3", "4", "5", "6", "7", "8", "9" >>[(n % 10) + 1]
    IN  IF n < 10 THEN << digit >> ELSE Decimal(n \div 10) \o << digit >>

\* Python's None for selected_value and for an absent /V. An export value is
\* never empty, so the empty sequence is free to stand for it.
None == <<>>

OptionName == << "O", "p", "t", "i", "o", "n" >>
OffName == << "O", "f", "f" >>

\* The while loop of normalize_export_value.
RECURSIVE FirstUnused(_, _, _, _)
FirstUnused(base, candidate, suffix, used) ==
    IF candidate \in used
    THEN FirstUnused(base, base \o << "_" >> \o Decimal(suffix), suffix + 1, used)
    ELSE candidate

\* normalize_export_value: the value it returns (it also adds it to `used`).
normalize_export_value(value, used) ==
    LET raw  == Strip(SubRuns(value, FALSE))
        base == IF raw = <<>> THEN OptionName ELSE raw
    IN  FirstUnused(base, base, 1 + 1, used)

\* An option of the field spec: a dict with a value and a rect, or something
\* that is no dict.
Option(value, rect) == [is_dict |-> TRUE, value |-> value, rect |-> rect]
NotADict == [is_dict |-> FALSE, value |-> <<>>, rect |-> <<>>]

\* The widget of one option. Its /AP /N dictionary is written with the keys
\* /{export_value} and /Off in this order, so for the export value Off the
\* second entry replaces the first.
Widget(option_index, export_value, selected_value) ==
    [option |-> option_index,
     export_value |-> export_value,
     N  |-> [name \in { export_value, OffName } |->
                IF name = OffName THEN "off_ref" ELSE "on_ref"],
     AS |-> IF selected_value = export_value THEN export_value ELSE OffName]

\* One pass of `for option in options`.
OptionStep(field, g) ==
    LET option == field.options[g.next]
        after  == [g EXCEPT !.next = @ + 1]
    IN  IF ~ option.is_dict THEN after
        ELSE IF option.rect = <<>> \/ Len(option.rect) # 4 THEN after
        ELSE LET export_value == normalize_export_value(option.value, g.used_values)
                 selected_value ==
                     IF g.selected_value = None /\ field.default_value = option.value
                     THEN export_value
                     ELSE g.selected_value
             IN  [after EXCEPT
                    !.used_values = @ \cup { export_value },
                    !.selected_value = selected_value,
                    !.kids = Append(@, Widget(g.next, export_value, selected_value))]

\* Option values and defaults: plain, needing sanitizing, colliding after
\* sanitizing, equal to a generated suffix form, the name Off, and one with no
\* word character.
OptionValues ==
    { << "A" >>, << "A", "!" >>, << "A", "_", "2" >>, OffName, << "!" >> }

DefaultValues == OptionValues \cup { << "B" >> }

OptionRect == << Pt(10), Pt(10), Pt(22), Pt(22) >>

OptionSpecs ==
    { Option(v, OptionRect) : v \in OptionValues }
        \cup { Option(<< "A" >>, <<>>), NotADict }

MaxOptions == 3

OptionLists == UNION { [1..n -> OptionSpecs] : n \in 1..MaxOptions }

InitRadio ==
    /\ radio_field \in { [options |-> o, default_value |-> d] :
                            o \in OptionLists, d \in DefaultValues }
    /\ radio_group = [kids |-> <<>>, V |-> None, used_values |-> {},
                      selected_value |-> None, next |-> 1]
    /\ radio_pc = "options"
    /\ ResolveOff
    /\ ConvertOff
    /\ MatrixOff
    /\ RasterOff
    /\ FillOff
    /\ TemplatesOff
    /\ PairingOff
    /\ CreditsOff

RadioOption ==
    /\ radio_pc = "options"
    /\ radio_group.next <= Len(radio_field.options)
    /\ radio_group' = OptionStep(radio_field, radio_group)
    /\ UNCHANGED << radio_field, radio_pc >>
    /\ UNCHANGED nonRadVars

\* After the loop: `if selected_value: parent["/V"] = ...`.
RadioParent ==
    /\ radio_pc = "options"
    /\ radio_group.next > Len(radio_field.options)
    /\ radio_group' = [radio_group EXCEPT
            !.V = IF radio_group.selected_value # None
                  THEN radio_group.selected_value ELSE None]
    /\ radio_pc' = "built"
    /\ UNCHANGED radio_field
    /\ UNCHANGED nonRadVars

NextRadio == RadioOption \/ RadioParent

SpecRadio == InitRadio /\ [][NextRadio]_vars

\* A widget shows as on when its appearance state names an entry of /N other
\* than Off, and that entry is the on appearance.
WidgetOn(kid) ==
    /\ kid.AS # OffName
    /\ kid.AS \in DOMAIN kid.N
    /\ kid.N[kid.AS] = "on_ref"

KidsOn == { k \in 1..Len(radio_group.kids) : WidgetOn(radio_group.kids[k]) }

\* The kids whose option value equals the default value.
KidsMatching ==
    { k \in 1..Len(radio_group.kids) :
        radio_field.options[radio_group.kids[k].option].value
            = radio_field.default_value }

\* C10: the widget of the first option whose value equals the default is the
\* only one on and the parent's value is its export value; without a match
\* no widget is on and the parent has no value; never more than one is on.
C10_DefaultOptionOn ==
    /\ Cardinality(KidsOn) <= 1
    /\ radio_pc = "built" =>
         IF KidsMatching # {}
         THEN LET first == SetMin(KidsMatching)
              IN  /\ KidsOn = { first }
                  /\ radio_group.V = radio_group.kids[first].export_value
         ELSE KidsOn = {} /\ radio_group.V = None

\* The same for groups in which no export value is the name Off.
C10_UnlessExportOff ==
    (\A k \in 1..Len(radio_group.kids) : radio_group.kids[k].export_value # OffName)
        => C10_DefaultOptionOn

\* Export values of one group are pairwise distinct.
ExportValuesDistinct ==
    \A j, k \in 1..Len(radio_group.kids) :
        j # k => radio_group.kids[j].export_value # radio_group.kids[k].export_value

-----------------------------------------------------------------------------
(* fillable_form_convert: src/pages/views.py 2188-2379                     *)
(* The detectors are modelled above; here their results are part of the    *)
(* uploaded document, so that the order of the passes is what is examined. *)

\* An annotation of an uploaded page: /Subtype, whether it has a /Rect, /T.
Annot(subtype, rect, name) == [Subtype |-> subtype, Rect |-> rect, T |-> name]

SignatureName == << "s", "i", "g" >>
WidgetNamed   == Annot("/Widget", TRUE, SignatureName)
WidgetUnnamed == Annot("/Widget", TRUE, None)
WidgetNoRect  == Annot("/Widget", FALSE, SignatureName)
LinkAnnot     == Annot("/Link", TRUE, None)

\* An uploaded page: its annotations and what each detector finds on it.
FillPage(annots, vector, lines, boxes) ==
    [Annots |-> annots, vector |-> vector,
     raster_lines |-> lines, raster_checkboxes |-> boxes]

LineField       == TextCand(RectBox24)
LineFieldRaster == TextCand(RectBoxLower)
OtherLineField  == TextCand(RectApart)
BoxField        == BoxCand("checkbox", RectSquare)
OtherBoxField   == BoxCand("checkbox", RectBeside)
RadioField      == BoxCand("radio", RectApart)

BlankPage       == FillPage(<<>>, <<>>, <<>>, <<>>)
VectorLinePage  == FillPage(<<>>, <<LineField>>, <<LineFieldRaster>>, <<>>)
VectorMorePage  == FillPage(<<>>, <<LineField>>, <<OtherLineField>>, <<OtherBoxField>>)
VectorBoxPage   == FillPage(<<>>, <<BoxField, LineField, RadioField>>, <<>>, <<OtherBoxField>>)
ScannedLinePage == FillPage(<<>>, <<>>, <<LineField, OtherLineField>>, <<>>)
ScannedBoxPage  == FillPage(<<>>, <<>>, <<>>, <<BoxField>>)
WidgetPage      == FillPage(<<LinkAnnot, WidgetNamed>>, <<LineField>>, <<>>, <<>>)
UnnamedPage     == FillPage(<<WidgetUnnamed, WidgetUnnamed>>, <<>>, <<LineField>>, <<>>)
NoRectPage      == FillPage(<<WidgetNoRect>>, <<LineField>>, <<>>, <<>>)
LinkPage        == FillPage(<<LinkAnnot>>, <<BoxField>>, <<>>, <<>>)

FillPages == { BlankPage, VectorLinePage, VectorMorePage, VectorBoxPage,
               ScannedLinePage, ScannedBoxPage, WidgetPage, UnnamedPage,
               NoRectPage, LinkPage }

MaxPages == 2

\* /AcroForm of the upload: absent, or a dictionary with its /Fields.
AcroForm(present, fields) == [present |-> present, Fields |-> fields]
NoAcroForm == AcroForm(FALSE, <<>>)
AcroForms == { NoAcroForm, AcroForm(TRUE, <<>>), AcroForm(TRUE, << SignatureName >>) }

Uploads ==
    { [balance |-> b, acroform |-> a, pages |-> ps] :
        b \in {0, 1}, a \in AcroForms,
        ps \in UNION { [1..n -> FillPages] : n \in 1..MaxPages } }

\* f"field_{name_index}" and f"auto_{field_index}"
widget_name(name_index) == << "f", "i", "e", "l", "d", "_" >> \o Decimal(name_index)
field_name(field_index) == << "a", "u", "t", "o", "_" >> \o Decimal(field_index)

RECURSIVE FlattenAnnots(_)
FlattenAnnots(pages) ==
    IF pages = <<>> THEN <<>>
    ELSE Head(pages).Annots \o FlattenAnnots(Tail(pages))

\* The loop body of _collect_widget_fields over the annotations of all pages.
RECURSIVE CollectWidgets(_, _)
CollectWidgets(annots, name_index) ==
    IF annots = <<>> THEN <<>>
    ELSE LET annot == Head(annots)
         IN  IF annot.Subtype # "/Widget" \/ ~annot.Rect
             THEN CollectWidgets(Tail(annots), name_index)
             ELSE IF annot.T = None
             THEN << [annot EXCEPT !.T = widget_name(name_index)] >>
                      \o CollectWidgets(Tail(annots), name_index + 1)
             ELSE << annot >> \o CollectWidgets(Tail(annots), name_index)

\* A detector that never finds a widget.
CollectNoWidgets(pages) == <<>>

_collect_widget_fields(pages) == CollectWidgets(FlattenAnnots(pages), 1)

\* has_fields as lines 2237-2286 compute it.
HasFields(acroform, widgets) ==
    \/ acroform.present /\ Len(acroform.Fields) > 0
    \/ widgets # <<>>

\* /Fields of the output when the document already has fields (2288-2294).
ExistingFields(acroform, widgets) ==
    IF ~acroform.present THEN [k \in 1..Len(widgets) |-> widgets[k].T]
    ELSE IF widgets # <<>> /\ acroform.Fields = <<>>
    THEN [k \in 1..Len(widgets) |-> widgets[k].T]
    ELSE acroform.Fields

\* has_checkboxes of the vector pass.
HasCheckboxes(by_page) ==
    \E p \in 1..Len(by_page) : \E k \in 1..Len(by_page[p]) :
        by_page[p][k].type \in {"checkbox", "radio"}

VectorFields == [p \in 1..Len(upload.pages) |-> upload.pages[p].vector]
need_raster_lines == TRUE
need_raster_checkboxes == ~HasCheckboxes(VectorFields)

RECURSIVE SumLen(_)
SumLen(by_page) ==
    IF by_page = <<>> THEN 0 ELSE Len(Head(by_page)) + SumLen(Tail(by_page))

\* A count of the pages, not of their fields.
TotalPages(by_page) == Len(by_page)

total_fields(by_page) == SumLen(by_page)

\* The field loop of _apply_detected_fields on one page: st is the counter
\* and the field array so far.
RECURSIVE NameFields(_, _, _, _)
NameFields(specs, p, st, k) ==
    IF k > Len(specs) THEN st
    ELSE NameFields(specs, p,
            [field_index |-> st.field_index + 1,
             field_array |-> Append(st.field_array,
                 [T |-> field_name(st.field_index), page |-> p, spec |-> specs[k]])],
            k + 1)

\* The counter starting again on every page.
ApplyPageRestarting(specs, p, st) ==
    NameFields(specs, p, [st EXCEPT !.field_index = 1], 1)

ApplyPage(specs, p, st) == NameFields(specs, p, st, 1)

RECURSIVE ApplyPages(_, _, _)
ApplyPages(by_page, p, st) ==
    IF p > Len(by_page) THEN st
    ELSE IF by_page[p] = <<>> THEN ApplyPages(by_page, p + 1, st)
    ELSE ApplyPages(by_page, p + 1, ApplyPage(by_page[p], p, st))

_apply_detected_fields(by_page) ==
    ApplyPages(by_page, 1, [field_index |-> 1, field_array |-> <<>>]).field_array

\* The widget annotation the field loop appends for a field.
NewWidget(entry) == Annot("/Widget", TRUE, entry.T)

\* The fields of the field array that lie on page p.
FieldsOnPage(field_array, p) == SelectSeq(field_array, LAMBDA e : e.page = p)

\* Variant that starts from an empty array.
OnlyNewWidgets(annotations, entries) ==
    [k \in 1..Len(entries) |-> NewWidget(entries[k])]

\* /Annots of a page after the field loop: the array the page had, with
\* `annotations.append(widget_ref)` for every field of the page.
AppendWidgets(annotations, entries) ==
    annotations \o [k \in 1..Len(entries) |-> NewWidget(entries[k])]

\* /Annots of every page of the written document after
\* _apply_detected_fields.
WrittenAnnots(pages, field_array) ==
    [p \in 1..Len(pages) |->
        AppendWidgets(pages[p].Annots, FieldsOnPage(field_array, p))]

\* The annotations of a page after _collect_widget_fields has given the
\* widgets without /T their names, and the number of names it gave.
RECURSIVE MarkWidgets(_, _)
MarkWidgets(annots, name_index) ==
    IF annots = <<>> THEN <<>>
    ELSE LET annot == Head(annots)
         IN  IF annot.Subtype = "/Widget" /\ annot.Rect /\ annot.T = None
             THEN << [annot EXCEPT !.T = widget_name(name_index)] >>
                      \o MarkWidgets(Tail(annots), name_index + 1)
             ELSE << annot >> \o MarkWidgets(Tail(annots), name_index)
NamesGiven(annots) ==
    Cardinality({ k \in 1..Len(annots) :
        annots[k].Subtype = "/Widget" /\ annots[k].Rect /\ annots[k].T = None })
MarkedAnnots(pages) ==
    [p \in 1..Len(pages) |->
        MarkWidgets(pages[p].Annots,
                    1 + NamesGiven(FlattenAnnots(SubSeq(pages, 1, p - 1))))]

\* The responses of the view.
Refused(message) == [status |-> 400, message |-> message, file_data |-> FALSE]
Converted(message) == [status |-> 200, message |-> message, file_data |-> TRUE]

InitFill ==
    /\ upload \in Uploads
    /\ conv_pc = "request"
    /\ has_fields = FALSE
    /\ conv_fields = <<>>
    /\ raster_index = 0
    /\ calls = <<>>
    /\ out_fields = <<>>
    /\ out_annots = <<>>
    /\ response = <<>>
    /\ usage = 0
    /\ ResolveOff
    /\ ConvertOff
    /\ MatrixOff
    /\ RasterOff
    /\ RadioOff
    /\ TemplatesOff
    /\ PairingOff
    /\ CreditsOff

\* balance <= 0
RefuseNoCredits ==
    /\ conv_pc = "request"
    /\ upload.balance <= 0
    /\ response' = Refused("No credits remaining")
    /\ conv_pc' = "done"
    /\ UNCHANGED <<upload, has_fields, conv_fields, raster_index, calls, out_fields, out_annots, usage>>
    /\ UNCHANGED nonFillVars

\* The document has fields already: they are kept, the document is written
\* and the usage is recorded.
KeepExistingFields ==
    /\ conv_pc = "request"
    /\ upload.balance > 0
    /\ LET widgets == _collect_widget_fields(upload.pages)
       IN  /\ HasFields(upload.acroform, widgets)
           /\ has_fields' = TRUE
           /\ out_fields' = [k \in 1..Len(ExistingFields(upload.acroform, widgets)) |->
                               [T |-> ExistingFields(upload.acroform, widgets)[k],
                                page |-> 0, spec |-> "existing"]]
           /\ out_annots' = MarkedAnnots(upload.pages)
    /\ response' = Converted("Fillable fields detected")
    /\ usage' = usage + 1
    /\ conv_pc' = "done"
    /\ UNCHANGED <<upload, conv_fields, raster_index, calls>>
    /\ UNCHANGED nonFillVars

\* fields_by_page = [_extract_drawn_fields(reader, p) for p in reader.pages]
ExtractDrawn ==
    /\ conv_pc = "request"
    /\ upload.balance > 0
    /\ ~HasFields(upload.acroform, _collect_widget_fields(upload.pages))
    /\ conv_fields' = VectorFields
    /\ calls' = calls \o [p \in 1..Len(upload.pages) |-> <<"vector", p>>]
    /\ raster_index' = 1
    /\ conv_pc' = "raster"
    /\ UNCHANGED <<upload, has_fields, out_fields, out_annots, response, usage>>
    /\ UNCHANGED nonFillVars

\* The rasterizer fails on the document or on a page: the exception is caught
\* by the handler of the view.
RasterUnavailable ==
    /\ conv_pc = "raster"
    /\ raster_index <= Len(upload.pages)
    /\ response' = Refused("Unable to convert")
    /\ conv_pc' = "done"
    /\ UNCHANGED <<upload, has_fields, conv_fields, raster_index, calls, out_fields, out_annots, usage>>
    /\ UNCHANGED nonFillVars

\* One round of the raster loop.
RasterPage ==
    /\ conv_pc = "raster"
    /\ raster_index <= Len(upload.pages)
    /\ LET page == upload.pages[raster_index]
           with_lines == IF need_raster_lines
                         THEN conv_fields[raster_index] \o page.raster_lines
                         ELSE conv_fields[raster_index]
           with_boxes == IF need_raster_checkboxes
                         THEN with_lines \o page.raster_checkboxes
                         ELSE with_lines
           deduped == IF with_boxes # <<>> THEN _dedupe_field_specs(with_boxes)
                      ELSE with_boxes
       IN  /\ conv_fields' = [conv_fields EXCEPT ![raster_index] = deduped]
           /\ calls' = calls
                \o (IF need_raster_lines THEN << <<"raster_lines", raster_index>> >> ELSE <<>>)
                \o (IF need_raster_checkboxes
                    THEN << <<"raster_checkboxes", raster_index>> >> ELSE <<>>)
    /\ raster_index' = raster_index + 1
    /\ UNCHANGED <<upload, conv_pc, has_fields, out_fields, out_annots, response, usage>>
    /\ UNCHANGED nonFillVars

Resolved == [p \in 1..Len(conv_fields) |-> ResolvePage(conv_fields[p])]

\* Resolution leaves no candidate: the nothing-detected response.
NothingDetected ==
    /\ conv_pc = "raster"
    /\ raster_index > Len(upload.pages)
    /\ total_fields(Resolved) <= 0
    /\ conv_fields' = Resolved
    /\ calls' = Append(calls, <<"resolve", 0>>)
    /\ response' = Refused("No lines, checkboxes, or radio buttons were detected")
    /\ conv_pc' = "done"
    /\ UNCHANGED <<upload, has_fields, raster_index, out_fields, out_annots, usage>>
    /\ UNCHANGED nonFillVars

\* Resolution, _apply_detected_fields, the written document and the usage.
ApplyDetected ==
    /\ conv_pc = "raster"
    /\ raster_index > Len(upload.pages)
    /\ total_fields(Resolved) > 0
    /\ conv_fields' = Resolved
    /\ calls' = Append(calls, <<"resolve", 0>>)
    /\ out_fields' = _apply_detected_fields(Resolved)
    /\ out_annots' = WrittenAnnots(upload.pages, _apply_detected_fields(Resolved))
    /\ response' = Converted("Fillable fields added")
    /\ usage' = usage + 1
    /\ conv_pc' = "done"
    /\ UNCHANGED <<upload, has_fields, raster_index>>
    /\ UNCHANGED nonFillVars

NextFill ==
    \/ RefuseNoCredits
    \/ KeepExistingFields
    \/ ExtractDrawn
    \/ RasterUnavailable
    \/ RasterPage
    \/ NothingDetected
    \/ ApplyDetected

SpecFill == InitFill /\ [][NextFill]_vars

\* The conversion has ended with detected fields written to the document.
Detected == conv_pc = "done" /\ response.status = 200 /\ ~has_fields

\* The specs of the output fields of page p, in the order of the field array.
FieldsOfPage(p) ==
    LET OnPage(f) == f.page = p
        named == SelectSeq(out_fields, OnPage)
    IN  [k \in 1..Len(named) |-> named[k].spec]

\* C11: the detected fields are named auto_1, auto_2, ... by one counter that
\* runs over all pages in page order: every resolved candidate gets a name,
\* no two fields of the document share a name, also across pages, and no
\* number is skipped.
C11_OneCounterOverPages ==
    Detected =>
        /\ Len(out_fields) = SumLen(conv_fields)
        /\ \A i \in 1..Len(out_fields) :
               out_fields[i].T = << "a", "u", "t", "o", "_" >> \o Decimal(i)
        /\ \A i, j \in 1..Len(out_fields) :
               /\ i # j => out_fields[i].T # out_fields[j].T
               /\ i < j => out_fields[i].page <= out_fields[j].page
        /\ \A p \in 1..Len(conv_fields) : FieldsOfPage(p) = conv_fields[p]

\* Fields were named on two pages, more than one on the second.
C11_Witness ==
    /\ Detected
    /\ Len(conv_fields) = 2
    /\ conv_fields[1] # <<>>
    /\ Len(conv_fields[2]) >= 2
    /\ out_fields[Len(out_fields)].page = 2

\* An empty page before the named ones does not take a number.
C11_SkipsEmptyPage ==
    /\ Detected
    /\ Len(conv_fields) = 2
    /\ conv_fields[1] = <<>>
    /\ out_fields[1] = [T |-> << "a", "u", "t", "o", "_", "1" >>, page |-> 2,
                        spec |-> conv_fields[2][1]]

AnyWidgetAnnotation ==
    \E p \in 1..Len(upload.pages) : \E k \in 1..Len(upload.pages[p].Annots) :
        upload.pages[p].Annots[k].Subtype = "/Widget"

WidgetWithRect ==
    \E p \in 1..Len(upload.pages) : \E k \in 1..Len(upload.pages[p].Annots) :
        /\ upload.pages[p].Annots[k].Subtype = "/Widget"
        /\ upload.pages[p].Annots[k].Rect

FormFieldArray == upload.acroform.present /\ upload.acroform.Fields # <<>>

DetectorCalled(names) == \E i \in 1..Len(calls) : calls[i][1] \in names
Detectors == {"vector", "raster_lines", "raster_checkboxes"}
AutoFieldAdded == \E i \in 1..Len(out_fields) : out_fields[i].page > 0

\* C13 as stated: with a non-empty form field array or any widget annotation
\* on any page, no detector runs and no detected field is added.
C13_Original ==
    (FormFieldArray \/ AnyWidgetAnnotation)
        => ~DetectorCalled(Detectors) /\ ~AutoFieldAdded

\* C13: with a non-empty form field array or a widget annotation that has a
\* rectangle, no detector runs and no detected field is added; a request with
\* credits for any other document, also one whose only widget annotations
\* lack a rectangle, goes through the vector pass of every page.
C13_DetectionOnlyWithoutFields ==
    /\ (FormFieldArray \/ WidgetWithRect)
           => ~DetectorCalled(Detectors) /\ ~AutoFieldAdded
    /\ (conv_pc = "done" /\ upload.balance > 0 /\ ~(FormFieldArray \/ WidgetWithRect))
           => \A p \in 1..Len(upload.pages) :
                  \E i \in 1..Len(calls) : calls[i] = <<"vector", p>>

\* A document with widgets whose pages also show drawn lines was converted:
\* its widgets are the fields of the output.
C13_Witness ==
    /\ conv_pc = "done"
    /\ WidgetWithRect
    /\ \E p \in 1..Len(upload.pages) : upload.pages[p].vector # <<>>
    /\ response.status = 200
    /\ out_fields # <<>>
    /\ calls = <<>>

\* Detection ran although a page carries a widget annotation.
C13_RectlessWidget ==
    /\ conv_pc = "done"
    /\ AnyWidgetAnnotation
    /\ AutoFieldAdded

ResolutionDone == \E i \in 1..Len(calls) : calls[i][1] = "resolve"

\* C14: when after resolution no page has a candidate, the conversion ends
\* with the nothing-detected response: status 400, no document, no usage
\* recorded, no field written.
C14_NothingDetectedOutcome ==
    (conv_pc = "done" /\ ResolutionDone
        /\ \A p \in 1..Len(conv_fields) : conv_fields[p] = <<>>)
    => /\ response = Refused("No lines, checkboxes, or radio buttons were detected")
       /\ ~response.file_data
       /\ usage = 0
       /\ out_fields = <<>>

\* Two pages on which all three detectors ran and found nothing.
C14_Witness ==
    /\ conv_pc = "done"
    /\ ResolutionDone
    /\ Len(conv_fields) = 2
    /\ \A p \in 1..2 : conv_fields[p] = <<>>
    /\ DetectorCalled({"raster_checkboxes"})
    /\ response.status = 400

\* C16: the raster detectors run only when the vector pass found nothing, and
\* with vector candidates every candidate of the result is a vector one.
C16_RasterOnlyWithoutVector ==
    SumLen(VectorFields) > 0 =>
        /\ ~DetectorCalled({"raster_lines", "raster_checkboxes"})
        /\ \A p \in 1..Len(conv_fields) :
               SeqRange(conv_fields[p]) \subseteq SeqRange(VectorFields[p])

-----------------------------------------------------------------------------
(* What the conversion keeps of the uploaded document                      *)

\* The conversion wrote a document.
Written == conv_pc = "done" /\ response.status = 200

\* An annotation of the output is the annotation the upload had at its
\* place: same subtype, same /Rect, and its /T if it had one.
SameAnnotation(before, after) ==
    /\ after.Subtype = before.Subtype
    /\ after.Rect = before.Rect
    /\ before.T # None => after.T = before.T

\* The annotations a page had are the first annotations of the written page,
\* in their order.
AnnotationsKept(p) ==
    /\ Len(out_annots[p]) >= Len(upload.pages[p].Annots)
    /\ \A k \in 1..Len(upload.pages[p].Annots) :
           SameAnnotation(upload.pages[p].Annots[k], out_annots[p][k])

\* Every field of the uploaded form is a field of the written form.
FormFieldsKept ==
    \A k \in 1..Len(upload.acroform.Fields) :
        \E n \in 1..Len(out_fields) : out_fields[n].T = upload.acroform.Fields[k]

\* C27: in the written document every page has the annotations it had, in
\* the same order and before the widgets that were added, and the form has
\* every field it had.
C27_SynthesisOnlyAppends ==
    Written => /\ Len(out_annots) = Len(upload.pages)
               /\ \A p \in 1..Len(upload.pages) : AnnotationsKept(p)
               /\ FormFieldsKept

\* Witness of C27: a page with a link annotation got a detected field, and
\* its annotations are the link followed by the widget auto_1.
C27_Witness ==
    /\ Written
    /\ ~ has_fields
    /\ upload.pages[1] = LinkPage
    /\ out_annots[1] = << LinkAnnot, Annot("/Widget", TRUE, field_name(1)) >>

\* A document that had a form field was written with that field and the
\* annotations of its pages.
KeptExistingForm ==
    /\ Written
    /\ has_fields
    /\ upload.acroform.Fields # <<>>
    /\ upload.pages[1] = UnnamedPage
    /\ FormFieldsKept
    /\ out_annots[1][1].T = widget_name(1)

-----------------------------------------------------------------------------
(* PDF Form Creator: src/form_creator/views.py, models.py, admin.py        *)

\* The users: one with advanced access, one without, one superuser.
Users == {"creator", "blocked", "root"}
is_superuser(user) == user = "root"
AdvancedProfiles == {"creator"}

_can_use_advanced_tools(user) == is_superuser(user) \/ user \in AdvancedProfiles

\* Credits purchased by every user.
Credits == 2

_available_credits(user) == Max2(Credits - tpl_usage[user], 0)

FIELD_TYPES == { "text", "multiline", "number", "date", "dropdown", "checkbox",
                 "radio", "signature", "heading", "paragraph", "section", "table" }
SUPPORTED_FILLABLE == { "text", "text_line", "multiline", "number", "checkbox",
                        "radio", "date" }

\* str.strip() and str.strip(chars)
RECURSIVE TrimLeft(_, _)
TrimLeft(text, chars) ==
    IF text # <<>> /\ Head(text) \in chars THEN TrimLeft(Tail(text), chars) ELSE text

RECURSIVE TrimRight(_, _)
TrimRight(text, chars) ==
    IF text # <<>> /\ text[Len(text)] \in chars
    THEN TrimRight(SubSeq(text, 1, Len(text) - 1), chars)
    ELSE text

Trim(text, chars) == TrimRight(TrimLeft(text, chars), chars)

\* re.sub(r"[chars]+", by, text)
RECURSIVE ReplaceRuns(_, _, _, _)
ReplaceRuns(text, chars, by, in_run) ==
    IF text = <<>> THEN <<>>
    ELSE IF Head(text) \in chars
         THEN (IF in_run THEN <<>> ELSE << by >>)
                  \o ReplaceRuns(Tail(text), chars, by, TRUE)
         ELSE << Head(text) >> \o ReplaceRuns(Tail(text), chars, by, FALSE)

\* str.lower() on the capitals of the model.
Lower(c) ==
    CASE c = "A" -> "a" [] c = "B" -> "b" [] c = "O" -> "o" [] c = "U" -> "u"
      [] OTHER -> c

\* django.utils.text.slugify
slugify(value) ==
    LET lowered == [k \in 1..Len(value) |-> Lower(value[k])]
        IsKept(c) == c \in WordChars \cup {" ", "-"}
        kept == SelectSeq(lowered, IsKept)
    IN  Trim(ReplaceRuns(kept, {" ", "-"}, "-", FALSE), {"-", "_"})

FieldWord == << "f", "i", "e", "l", "d" >>
UntitledField == << "U", "n", "t", "i", "t", "l", "e", "d", " " >> \o FieldWord

\* _generate_key: the key it returns (it also adds it to used_keys).
_generate_key(label, used_keys) ==
    LET slug == slugify(label)
        replaced == [k \in 1..Len(slug) |-> IF slug[k] = "-" THEN "_" ELSE slug[k]]
        stripped == Trim(replaced, {"_"})
        base == IF stripped = <<>> THEN FieldWord ELSE stripped
    IN  FirstUnused(base, base, 1 + 1, used_keys)

\* A field of a payload and a stored FormField. h is in thousandths of the
\* page height; rows and columns are those of a table.
RawField(id, type, label, key, h, options, rows, columns) ==
    [id |-> id, type |-> type, label |-> label, key |-> key, h |-> h,
     options |-> options, rows |-> rows, columns |-> columns]

FormField(type, label, key, h, options, rows, columns) ==
    [type |-> type, label |-> label, key |-> key, h |-> h,
     options |-> options, rows |-> rows, columns |-> columns]

FormTemplate(owner, name, page_size, mode) ==
    [owner |-> owner, name |-> name, page_size |-> page_size,
     default_output_mode |-> mode, is_deleted |-> FALSE, fields |-> <<>>]

\* str.upper() on the output modes of the model.
Upper(value) ==
    CASE value = "fillable" -> "FILLABLE" [] value = "flattened" -> "FLATTENED"
      [] OTHER -> value

_normalize_output_mode(raw_value, fallback) ==
    LET chosen == IF raw_value # "" THEN raw_value
                  ELSE IF fallback # "" THEN fallback ELSE "FLATTENED"
        value == Upper(chosen)
    IN  IF value \in {"FLATTENED", "FILLABLE"} THEN value ELSE "FLATTENED"

\* One round of the loop of _save_template_payload over fields_payload.
SaveField(raw, st) ==
    LET stripped == Trim(raw.label, {" "})
        label == IF stripped = <<>> THEN UntitledField ELSE stripped
        given == Trim(raw.key, {" "})
        spaced == ReplaceRuns(given, {" "}, "_", FALSE)
        Reject(state, message) ==
            [state EXCEPT !.field_errors =
                Append(@, [id |-> raw.id, message |-> message])]
    IN  IF raw.type \notin FIELD_TYPES THEN Reject(st, "Unsupported field type.")
        ELSE IF given # <<>> /\ spaced \in st.used_keys
        THEN Reject(st, "Field key must be unique.")
        ELSE
        LET key == IF given # <<>> THEN spaced ELSE _generate_key(label, st.used_keys)
            keyed == [st EXCEPT !.used_keys = @ \cup {key}]
            IsFilled(opt) == Trim(opt, {" "}) # <<>>
            filled == SelectSeq(raw.options, IsFilled)
            options == IF raw.type \in {"dropdown", "radio"}
                       THEN [k \in 1..Len(filled) |-> Trim(filled[k], {" "})]
                       ELSE <<>>
        IN  IF ~(0 < raw.h /\ raw.h <= 1000)
            THEN Reject(keyed, "Field placement is out of bounds.")
            ELSE IF raw.type = "table" /\ ~(1 <= raw.columns /\ raw.columns <= 12)
            THEN Reject(keyed, "Table columns must be between 1 and 12.")
            ELSE IF raw.type = "table" /\ ~(1 <= raw.rows /\ raw.rows <= 50)
            THEN Reject(keyed, "Table rows must be between 1 and 50.")
            ELSE [keyed EXCEPT !.new_fields =
                    Append(@, FormField(raw.type, label, key, raw.h, options,
                                        IF raw.type = "table" THEN raw.rows ELSE 0,
                                        IF raw.type = "table" THEN raw.columns ELSE 0))]

RECURSIVE SaveLoop(_, _)
SaveLoop(raws, st) ==
    IF raws = <<>> THEN st ELSE SaveLoop(Tail(raws), SaveField(Head(raws), st))

\* The template saved together with fields that were rejected.
SaveDespiteErrors(template, payload) ==
    LET st == SaveLoop(payload.fields,
                       [used_keys |-> {}, new_fields |-> <<>>, field_errors |-> <<>>])
    IN  [field_errors |-> st.field_errors,
         template |-> [template EXCEPT !.fields = st.new_fields]]

\* _save_template_payload: the field errors and the template as stored.
_save_template_payload(template, payload) ==
    LET st == SaveLoop(payload.fields,
                       [used_keys |-> {}, new_fields |-> <<>>, field_errors |-> <<>>])
        name == IF payload.name # "" THEN payload.name
                ELSE IF template.name # "" THEN template.name ELSE "Untitled template"
        given_size == IF payload.page_size # "" THEN payload.page_size
                      ELSE template.page_size
        page_size == IF given_size \in {"A4", "LETTER"} THEN given_size ELSE "A4"
    IN  [field_errors |-> st.field_errors,
         template |->
            IF st.field_errors # <<>> THEN template
            ELSE [template EXCEPT
                    !.name = name,
                    !.page_size = page_size,
                    !.default_output_mode =
                        _normalize_output_mode(payload.default_output_mode,
                                               template.default_output_mode),
                    !.fields = st.new_fields]]

_page_size_points(page_size) ==
    IF page_size = "LETTER" THEN <<612, 792>> ELSE <<595, 842>>

\* render_scale of _build_pdf, and the line height calc_line_height falls
\* back to when the font gives no metrics.
render_scale == 2
field_line_height == 14 * render_scale

\* The first option of a radio group fits below the group label: the loop
\* over the options does not break at once. Lengths are in thousandths of a
\* pixel.
RadioOptionFits(field, page_size) ==
    LET h_px == field.h * _page_size_points(page_size)[2] * render_scale
        label_gap == 4 * render_scale
        radio_label_gap == 8 * render_scale
        box_size == 12 * render_scale
        options_top == field_line_height + label_gap + radio_label_gap
    IN  ~((options_top + box_size) * 1000 > h_px)

DefaultOptions == << << "O", "p", "t", "i", "o", "n", " ", "1" >>,
                     << "O", "p", "t", "i", "o", "n", " ", "2" >> >>

TableWord == << "t", "a", "b", "l", "e" >>

\* The specs of the cells of a table, row by row.
TableCells(base_key, rows, columns) ==
    [k \in 1..(rows * columns) |->
        [key |-> base_key \o << "_", "r" >> \o Decimal(((k - 1) \div columns) + 1)
                          \o << "_", "c" >> \o Decimal(((k - 1) % columns) + 1),
         type |-> "text", options |-> <<>>]]

\* The field specs _build_pdf appends for one stored field.
FieldSpecs(field, field_id, page_size, output_mode) ==
    IF field.type \in {"section", "heading", "paragraph"} THEN <<>>
    ELSE IF field.type = "radio"
    THEN LET options == IF field.options # <<>> THEN field.options ELSE DefaultOptions
         IN  IF RadioOptionFits(field, page_size)
             THEN << [key |-> field.key, type |-> "radio", options |-> options] >>
             ELSE <<>>
    ELSE IF field.type = "table"
    THEN IF output_mode = "FILLABLE"
         THEN TableCells(IF field.key # <<>> THEN field.key
                         ELSE TableWord \o << "_" >> \o Decimal(field_id),
                         field.rows, field.columns)
         ELSE <<>>
    ELSE IF field.type \in SUPPORTED_FILLABLE
    THEN << [key |-> field.key, type |-> field.type, options |-> <<>>] >>
    ELSE <<>>

RECURSIVE BuildSpecs(_, _, _, _)
BuildSpecs(fields, k, page_size, output_mode) ==
    IF k > Len(fields) THEN <<>>
    ELSE FieldSpecs(fields[k], k, page_size, output_mode)
            \o BuildSpecs(fields, k + 1, page_size, output_mode)

\* safe_name of _build_acroform for the idx-th spec.
safe_name(spec, idx) ==
    LET fallback == FieldWord \o << "_" >> \o Decimal(idx)
        raw_name == IF spec.key # <<>> THEN spec.key ELSE fallback
        sanitized == Strip(SubRuns(raw_name, FALSE))
    IN  IF sanitized # <<>> THEN sanitized ELSE fallback

\* /T of the entries of the field array _build_acroform writes.
_build_acroform(field_specs) ==
    [idx \in 1..Len(field_specs) |-> safe_name(field_specs[idx], idx)]

\* A form layer written in every output mode.
FormLayerAlways(output_mode, field_specs) == field_specs # <<>>

\* _build_pdf writes the form layer.
HasFormLayer(output_mode, field_specs) ==
    output_mode = "FILLABLE" /\ field_specs # <<>>

_build_pdf(template, output_mode) ==
    LET field_specs == BuildSpecs(template.fields, 1, template.page_size, output_mode)
    IN  [form_layer |-> HasFormLayer(output_mode, field_specs),
         field_specs |-> field_specs,
         names |-> IF HasFormLayer(output_mode, field_specs)
                   THEN _build_acroform(field_specs) ELSE <<>>]

\* The payloads of the model.
KeyOn      == << "o", "n" >>
LabelTo    == << "t", "o" >>
KeySpaced  == << "o", " ", "n" >>
KeyDashed  == << "o", "-", "n" >>
KeyTable   == << "t" >>
KeyCell    == << "t", "_", "r", "1", "_", "c", "1" >>

TextOn      == RawField("a", "text", KeyOn, KeyOn, 100, <<>>, 0, 0)
TextOnAgain == RawField("b", "text", LabelTo, KeyOn, 100, <<>>, 0, 0)
TextSpaced  == RawField("a", "text", KeyOn, KeySpaced, 100, <<>>, 0, 0)
TextDashed  == RawField("b", "number", LabelTo, KeyDashed, 100, <<>>, 0, 0)
Generated   == RawField("c", "date", KeyOn, <<>>, 100, <<>>, 0, 0)
Unlabelled  == RawField("d", "checkbox", << " " >>, <<>>, 100, <<>>, 0, 0)
RadioShort  == RawField("e", "radio", LabelTo, << "p" >>, 25, <<>>, 0, 0)
RadioTall   == RawField("e", "radio", LabelTo, << "p" >>, 100,
                        << << "A" >>, << " " >>, << "B", " " >> >>, 0, 0)
Signature   == RawField("f", "signature", LabelTo, << "f" >>, 100, <<>>, 0, 0)
Table       == RawField("g", "table", LabelTo, KeyTable, 100, <<>>, 1, 1 + 1)
CellText    == RawField("h", "text", LabelTo, KeyCell, 100, <<>>, 0, 0)
Bogus       == RawField("i", "bogus", LabelTo, << "b" >>, 100, <<>>, 0, 0)
OutOfBounds == RawField("j", "text", LabelTo, << "c" >>, 0, <<>>, 0, 0)
WideTable   == RawField("k", "table", LabelTo, << "d" >>, 100, <<>>, 1, 13)

FieldLists ==
    { << TextOn, TextOnAgain >>, << TextSpaced, TextDashed >>,
      << TextOn, Generated, Unlabelled, Signature >>,
      << RadioShort >>, << RadioTall >>, << Table, CellText >>,
      << OutOfBounds, Bogus, WideTable >> }

Payload(valid, fields) ==
    [valid |-> valid, name |-> "Renamed", page_size |-> "LETTER",
     default_output_mode |-> "fillable", fields |-> fields]

\* A body that is no JSON.
NoPayload == Payload(FALSE, <<>>)
Payloads == { Payload(TRUE, fields) : fields \in FieldLists } \cup { NoPayload }

Methods == {"GET", "POST"}
RawModes == {"", "fillable", "bogus"}

\* A GET request carries neither a payload nor an output mode.
BodiesOf(method) == IF method = "POST" THEN Payloads ELSE { NoPayload }
ModesOf(method) == IF method = "POST" THEN RawModes ELSE { "" }

MaxTemplates == 2
MaxRequests == 3
TemplateIds == 1..MaxTemplates

\* Two fields of the payload carry the same key.
DuplicateKeys(payload) ==
    \E i, j \in 1..Len(payload.fields) :
        /\ i # j
        /\ payload.fields[i].key # <<>>
        /\ payload.fields[i].key = payload.fields[j].key

\* A request and its response.
Response(op, user, template_id, status, kind) ==
    [op |-> op, user |-> user, id |-> template_id, status |-> status, kind |-> kind,
     field_errors |-> <<>>, pdf |-> FALSE, form_layer |-> FALSE, names |-> <<>>,
     output_mode |-> "", specs |-> 0,
     method |-> "GET", duplicate_keys |-> FALSE,
     source |-> template_id, listed |-> {}]

\* What a view leaves behind: its response, the templates, the usage rows.
Outcome(resp, stored, rows) == [response |-> resp, templates |-> stored, usage |-> rows]
Answer(resp) == Outcome(resp, templates, tpl_usage)

\* FormTemplate.objects.filter(id=template_id, is_deleted=False)
Found(template_id) ==
    template_id \in 1..Len(templates) /\ ~templates[template_id].is_deleted

\* A check that lets every user pass.
MayAccessAny(user, template_id) == TRUE

\* not request.user.is_superuser and template.owner_id != request.user.id
MayAccess(user, template_id) ==
    is_superuser(user) \/ templates[template_id].owner = user

\* FormTemplate.objects.filter(is_deleted=False), and .filter(owner=user) for
\* a user who is no superuser.
Listed(user) ==
    { template_id \in 1..Len(templates) :
          /\ ~templates[template_id].is_deleted
          /\ is_superuser(user) \/ templates[template_id].owner = user }

template_list(user) ==
    IF ~_can_use_advanced_tools(user)
    THEN Answer(Response("list", user, 0, 200, "denied"))
    ELSE IF ~is_superuser(user) /\ _available_credits(user) <= 0
    THEN Answer(Response("list", user, 0, 302, "no credits"))
    ELSE Outcome([Response("list", user, 0, 200, "templates") EXCEPT
                      !.listed = Listed(user)],
                 templates,
                 IF ~is_superuser(user)
                 THEN [tpl_usage EXCEPT ![user] = @ + 1] ELSE tpl_usage)

template_new(user, method, raw_mode) ==
    IF ~_can_use_advanced_tools(user)
    THEN Answer(Response("new", user, 0, 200, "denied"))
    ELSE IF method = "POST"
    THEN Outcome(Response("new", user, Len(templates) + 1, 302, "created"),
                 Append(templates,
                        FormTemplate(user, "Untitled template", "A4",
                                     _normalize_output_mode(raw_mode, "FLATTENED"))),
                 tpl_usage)
    ELSE Answer(Response("new", user, 0, 200, "form"))

template_edit(user, template_id) ==
    IF ~_can_use_advanced_tools(user)
    THEN Answer(Response("edit", user, template_id, 200, "denied"))
    ELSE IF ~Found(template_id)
    THEN Answer(Response("edit", user, template_id, 302, "not found"))
    ELSE IF ~MayAccess(user, template_id)
    THEN Answer(Response("edit", user, template_id, 302, "no access"))
    ELSE Answer(Response("edit", user, template_id, 200, "builder"))

\* The part template_save and template_api share: payload, save, response.
SavePayload(op, user, template_id, payload) ==
    IF ~payload.valid
    THEN Answer(Response(op, user, template_id, 400, "invalid json"))
    ELSE LET saved == _save_template_payload(templates[template_id], payload)
         IN  IF saved.field_errors # <<>>
             THEN Outcome([Response(op, user, template_id, 400, "field errors")
                               EXCEPT !.field_errors = saved.field_errors],
                          [templates EXCEPT ![template_id] = saved.template],
                          tpl_usage)
             ELSE Outcome(Response(op, user, template_id, 200, "saved"),
                          [templates EXCEPT ![template_id] = saved.template],
                          tpl_usage)

template_save(user, template_id, method, payload) ==
    IF method # "POST"
    THEN Answer(Response("save", user, template_id, 405, "method"))
    ELSE IF ~Found(template_id)
    THEN Answer(Response("save", user, template_id, 404, "not found"))
    ELSE IF ~MayAccess(user, template_id)
    THEN Answer(Response("save", user, template_id, 403, "forbidden"))
    ELSE SavePayload("save", user, template_id, payload)

template_duplicate(user, template_id, method) ==
    IF method # "POST"
    THEN Answer(Response("duplicate", user, template_id, 302, "method"))
    ELSE IF ~Found(template_id)
    THEN Answer(Response("duplicate", user, template_id, 404, "not found"))
    ELSE IF ~MayAccess(user, template_id)
    THEN Answer(Response("duplicate", user, template_id, 302, "no access"))
    ELSE Outcome([Response("duplicate", user, Len(templates) + 1, 302, "duplicated")
                      EXCEPT !.source = template_id],
                 Append(templates,
                        [templates[template_id] EXCEPT
                            !.owner = user,
                            !.name = @ \o " Copy"]),
                 tpl_usage)

template_delete(user, template_id, method) ==
    IF method # "POST"
    THEN Answer(Response("delete", user, template_id, 302, "method"))
    ELSE IF ~Found(template_id)
    THEN Answer(Response("delete", user, template_id, 404, "not found"))
    ELSE IF ~MayAccess(user, template_id)
    THEN Answer(Response("delete", user, template_id, 302, "no access"))
    ELSE Outcome(Response("delete", user, template_id, 302, "deleted"),
                 [templates EXCEPT ![template_id].is_deleted = TRUE],
                 tpl_usage)

\* The part template_export and template_export_api share.
ExportPdf(op, user, template_id, raw_mode) ==
    LET template == templates[template_id]
        output_mode == _normalize_output_mode(raw_mode, template.default_output_mode)
        built == _build_pdf(template, output_mode)
    IN  Answer([Response(op, user, template_id, 200, "application/pdf") EXCEPT
                    !.pdf = TRUE,
                    !.form_layer = built.form_layer,
                    !.names = built.names,
                    !.output_mode = output_mode,
                    !.specs = Len(built.field_specs)])

template_export(user, template_id, method, raw_mode) ==
    IF method # "POST"
    THEN Answer(Response("export", user, template_id, 405, "method"))
    ELSE IF ~Found(template_id)
    THEN Answer(Response("export", user, template_id, 404, "not found"))
    ELSE IF ~MayAccess(user, template_id)
    THEN Answer(Response("export", user, template_id, 403, "forbidden"))
    ELSE ExportPdf("export", user, template_id, raw_mode)

template_api(user, template_id, method, payload) ==
    IF ~Found(template_id)
    THEN Answer(Response("api", user, template_id, 404, "not found"))
    ELSE IF ~MayAccess(user, template_id)
    THEN Answer(Response("api", user, template_id, 403, "forbidden"))
    ELSE IF method = "GET"
    THEN Answer(Response("api", user, template_id, 200, "template"))
    ELSE SavePayload("api", user, template_id, payload)

template_export_api(user, template_id, method, raw_mode) ==
    IF method # "POST"
    THEN Answer(Response("export api", user, template_id, 405, "method"))
    ELSE IF ~Found(template_id)
    THEN Answer(Response("export api", user, template_id, 404, "not found"))
    ELSE IF ~MayAccess(user, template_id)
    THEN Answer(Response("export api", user, template_id, 403, "forbidden"))
    ELSE ExportPdf("export api", user, template_id, raw_mode)

InitTemplates ==
    /\ templates = <<>>
    /\ tpl_usage = [user \in Users |-> 0]
    /\ tpl_response = <<>>
    /\ requests = 0
    /\ ResolveOff
    /\ ConvertOff
    /\ MatrixOff
    /\ RasterOff
    /\ RadioOff
    /\ FillOff
    /\ PairingOff
    /\ CreditsOff

\* A view has handled a request: the response is kept with the method of the
\* request and with whether its payload had a key twice.
Handle(method, payload, outcome) ==
    /\ requests < MaxRequests
    /\ Len(outcome.templates) <= MaxTemplates
    /\ tpl_response' = [outcome.response EXCEPT
                            !.method = method,
                            !.duplicate_keys = DuplicateKeys(payload)]
    /\ templates' = outcome.templates
    /\ tpl_usage' = outcome.usage
    /\ requests' = requests + 1
    /\ UNCHANGED nonTplVars

\* The admin site adds a template for any owner (FormTemplateAdmin).
AdminAddTemplate ==
    \E owner \in Users :
        Handle("POST", NoPayload, Outcome(Response("admin add", "root", Len(templates) + 1, 302, "added"),
                       Append(templates,
                              FormTemplate(owner, "Untitled template", "A4", "FLATTENED")),
                       tpl_usage))

TemplateList == \E user \in Users : Handle("GET", NoPayload, template_list(user))

TemplateNew ==
    \E user \in Users, method \in Methods, raw_mode \in {"", "FILLABLE"} :
        Handle(method, NoPayload, template_new(user, method, raw_mode))

TemplateEdit ==
    \E user \in Users, template_id \in TemplateIds : Handle("GET", NoPayload, template_edit(user, template_id))

TemplateSave ==
    \E user \in Users, template_id \in TemplateIds, method \in Methods :
        \E payload \in BodiesOf(method) :
            Handle(method, payload, template_save(user, template_id, method, payload))

TemplateDuplicate ==
    \E user \in Users, template_id \in TemplateIds, method \in Methods :
        Handle(method, NoPayload, template_duplicate(user, template_id, method))

TemplateDelete ==
    \E user \in Users, template_id \in TemplateIds, method \in Methods :
        Handle(method, NoPayload, template_delete(user, template_id, method))

TemplateExport ==
    \E user \in Users, template_id \in TemplateIds, method \in Methods :
        \E raw_mode \in ModesOf(method) :
            Handle(method, NoPayload, template_export(user, template_id, method, raw_mode))

TemplateApi ==
    \E user \in Users, template_id \in TemplateIds, method \in Methods :
        \E payload \in BodiesOf(method) :
            Handle(method, payload, template_api(user, template_id, method, payload))

TemplateExportApi ==
    \E user \in Users, template_id \in TemplateIds, method \in Methods :
        \E raw_mode \in ModesOf(method) :
            Handle(method, NoPayload, template_export_api(user, template_id, method, raw_mode))

NextTemplates ==
    \/ AdminAddTemplate
    \/ TemplateList
    \/ TemplateNew
    \/ TemplateEdit
    \/ TemplateSave
    \/ TemplateDuplicate
    \/ TemplateDelete
    \/ TemplateExport
    \/ TemplateApi
    \/ TemplateExportApi

SpecTemplates == InitTemplates /\ [][NextTemplates]_vars

\* The names of the fields of the form an export wrote.
ExportedNames == IF requests > 0 THEN tpl_response.names ELSE <<>>

\* C12: no two fields of a form synthesized from a layout carry the same
\* field name: a name that collides with an earlier one gets a numeric suffix.
C12_FieldNamesDistinct ==
    \A i, j \in 1..Len(ExportedNames) :
        i # j => ExportedNames[i] # ExportedNames[j]

SaveOps == {"save", "api"}

\* C17: a save whose payload has two fields with the same key is answered
\* with status 400 and field_errors, and a save that is answered with an
\* error leaves every stored template, attributes and fields, as it was.
C17_SaveAllOrNothing ==
    [][ (tpl_response'.op \in SaveOps /\ tpl_response'.method = "POST")
            => /\ (tpl_response'.kind \in {"saved", "field errors"}
                     /\ tpl_response'.duplicate_keys)
                  => /\ tpl_response'.status = 400
                     /\ tpl_response'.field_errors # <<>>
               /\ tpl_response'.status # 200 => templates' = templates ]_vars

\* A template that has a name and fields of its own was sent a payload with a
\* duplicate key by its owner and answered with field errors.
C17_Witness ==
    /\ requests > 0
    /\ tpl_response.op = "save"
    /\ tpl_response.status = 400
    /\ tpl_response.field_errors # <<>>
    /\ tpl_response.duplicate_keys
    /\ templates[tpl_response.id].fields # <<>>
    /\ templates[tpl_response.id].name = "Renamed"

FormCreatorOps == { "list", "new", "edit", "save", "duplicate", "delete",
                    "export", "api", "export api" }
Refusals == { "denied", "forbidden", "no access", "not found", "method",
              "invalid json", "field errors", "no credits" }

\* C18: every form creator request of a user who is no superuser and has no
\* advanced access is refused, records no usage and changes no template.
C18_RefusedWithoutAdvancedAccess ==
    [][ (tpl_response'.op \in FormCreatorOps
            /\ ~_can_use_advanced_tools(tpl_response'.user))
        => /\ tpl_response'.kind \in Refusals
           /\ templates' = templates
           /\ tpl_usage' = tpl_usage ]_vars

\* The last request was a POST export of an existing template by its owner.
OwnerExport ==
    /\ requests > 0
    /\ tpl_response.op = "export"
    /\ tpl_response.method = "POST"
    /\ Found(tpl_response.id)
    /\ templates[tpl_response.id].owner = tpl_response.user

C19_FillableLayer == OwnerExport /\ tpl_response.form_layer
C19_FillableNoSpec ==
    /\ OwnerExport
    /\ tpl_response.output_mode = "FILLABLE"
    /\ templates[tpl_response.id].fields # <<>>
    /\ ~tpl_response.form_layer

-----------------------------------------------------------------------------
(* Rectangle pairing of the two line detectors on one layout:               *)
(* _extract_drawn_fields (pairing pass) and                                 *)
(* _detect_line_fields_from_raster (pairing)                                *)

\* The thresholds of _detect_line_fields_from_raster, in pixels.
max_thickness_px == Max2(2, 2 * scale)
edge_tol_px == Max2(2, 2 * scale)
min_rect_height_px == Max2(10, 10 * scale)
max_rect_height_px == Max2(min_rect_height_px + 6, 120 * scale)
min_rect_width_px == Max2(30, 20 * scale)
inset_px == Max2(2, (15 * scale) \div 10)

\* A layout, in PDF units on a 300 by 200 page: a lower horizontal line from
\* x to x + w at height y, an upper line h above it and shifted to the right
\* by shift, vertical lines at the ends of the extent the two share (both,
\* the left one only, or none), and possibly a third horizontal line halfway
\* between the two. Every line is stroked 1.5 wide.
LayoutWidths == { 18, 30, 120 }
LayoutGaps == { 10, 14, 20, 30, 40, 100 }
LayoutShifts == { 0, 30 }
LayoutVerticals == { "both", "left", "none" }
Layouts ==
    [x : {50}, y : {50}, w : LayoutWidths, h : LayoutGaps, shift : LayoutShifts,
     verticals : LayoutVerticals, third : BOOLEAN]
LayoutStroke == Tenth(15)
LayoutPage == Page(SmallPage, <<>>, NoForms)

\* The horizontal lines of a layout as (x1, x2, y), lowest first, and the
\* x positions of its vertical lines, which span from the lower to the upper
\* line.
LayoutHorizontals(l) ==
    << << l.x, l.x + l.w, l.y >> >>
        \o (IF l.third THEN << << l.x + l.shift, l.x + l.w, l.y + (l.h \div 2) >> >> ELSE <<>>)
        \o << << l.x + l.shift, l.x + l.w + l.shift, l.y + l.h >> >>
LayoutVerticalsAt(l) ==
    IF l.verticals = "both" THEN << l.x + l.shift, l.x + l.w >>
    ELSE IF l.verticals = "left" THEN << l.x + l.shift >>
    ELSE <<>>

\* The line and vertical segments parse_stream and classify_path collect
\* when the lines of the layout are stroked one by one.
RECURSIVE CollectHorizontals(_, _, _)
CollectHorizontals(G, hs, i) ==
    IF i > Len(hs) THEN G
    ELSE CollectHorizontals(
            add_line_segment(G, LayoutPage, Pt(hs[i][1]), Pt(hs[i][3]),
                             Pt(hs[i][2]), Pt(hs[i][3]), LayoutStroke),
            hs, i + 1)
RECURSIVE CollectVerticals(_, _, _, _)
CollectVerticals(G, l, xs, i) ==
    IF i > Len(xs) THEN G
    ELSE CollectVerticals(
            add_vertical_segment(G, LayoutPage, Pt(xs[i]), Pt(l.y),
                                 Pt(xs[i]), Pt(l.y + l.h), LayoutStroke),
            l, xs, i + 1)
LayoutBuckets(l) ==
    CollectVerticals(CollectHorizontals(EmptyBuckets, LayoutHorizontals(l), 1),
                     l, LayoutVerticalsAt(l), 1)

\* The Text rectangles of the vector pairing pass for a layout.
VectorRectangles(l) == PairingResult(LayoutBuckets(l), LayoutPage).fields

\* The rendering of the layout at `scale` pixels per unit: a stroke 1.5 wide
\* covers the three pixel rows, or columns, around its axis. Row 0 is the
\* top of the page.
ImageHeight == 200 * scale
ImageWidth == 300 * scale

\* horizontal_lines after the row scan, as (x1, x2, y1, y2) in scan order
\* (top row first), and vertical_lines after the column scan.
ScanHorizontals(l) ==
    LET hs == LayoutHorizontals(l)
    IN  [ k \in 1..Len(hs) |->
            LET h == hs[Len(hs) + 1 - k]
                r == ImageHeight - h[3] * scale
            IN  << h[1] * scale - 1, h[2] * scale + 1, r - 1, r + 1 >> ]
ScanVerticals(l) ==
    LET xs == LayoutVerticalsAt(l)
    IN  [ k \in 1..Len(xs) |->
            << xs[k] * scale - 1, xs[k] * scale + 1,
               ImageHeight - (l.y + l.h) * scale - 1, ImageHeight - l.y * scale + 1 >> ]

\* Twice (seg[2] + seg[3]) / 2.0, the centre row of a horizontal line.
CentreRow2(seg) == seg[3] + seg[4]

\* sorted(horizontal_lines, key=centre row): a stable insertion.
RECURSIVE InsertByRow(_, _)
InsertByRow(sorted, seg) ==
    IF sorted = <<>> THEN << seg >>
    ELSE IF CentreRow2(Head(sorted)) <= CentreRow2(seg)
         THEN << Head(sorted) >> \o InsertByRow(Tail(sorted), seg)
         ELSE << seg >> \o sorted
RECURSIVE SortByRow(_)
SortByRow(segs) ==
    IF segs = <<>> THEN <<>>
    ELSE InsertByRow(SortByRow(SubSeq(segs, 1, Len(segs) - 1)), segs[Len(segs)])

\* has_vertical_at of the raster detector; the rows are given doubled.
raster_has_vertical_at(verticals, x_pos, y_top2, y_bottom2) ==
    \E k \in 1..Len(verticals) :
        LET v == verticals[k]
        IN  /\ ~ (Abs((v[1] + v[2]) - 2 * x_pos) > 2 * edge_tol_px)
            /\ 2 * v[3] <= y_top2 + 2 * edge_tol_px
            /\ 2 * v[4] >= y_bottom2 - 2 * edge_tol_px

\* The inner loop of the raster pairing (for j in range(i + 1, ...)), from j
\* on. st is [rects, used_lines]; a rect is (x1, x2, top_y, bottom_y) with
\* the rows doubled.
RECURSIVE RasterPairInner(_, _, _, _, _)
RasterPairInner(hs, verticals, i, j, st) ==
    IF j > Len(hs) THEN st
    ELSE
    LET top       == hs[i]
        bottom    == hs[j]
        top_y2    == CentreRow2(top)
        bottom_y2 == CentreRow2(bottom)
        height2   == bottom_y2 - top_y2
        x1        == Max2(top[1], bottom[1])
        x2        == Min2(top[2], bottom[2])
        next      == RasterPairInner(hs, verticals, i, j + 1, st)
    IN  IF height2 < 2 * min_rect_height_px THEN next
        ELSE IF height2 > 2 * max_rect_height_px THEN st
        ELSE IF x2 - x1 < min_rect_width_px THEN next
        ELSE IF ~ (/\ raster_has_vertical_at(verticals, x1, top_y2, bottom_y2)
                   /\ raster_has_vertical_at(verticals, x2, top_y2, bottom_y2)) THEN next
        ELSE [rects |-> Append(st.rects, << x1, x2, top_y2, bottom_y2 >>),
              used_lines |-> st.used_lines \cup {i, j}]

\* The outer loop (for i, top in enumerate(horizontal_sorted)).
RECURSIVE RasterPairOuter(_, _, _, _)
RasterPairOuter(hs, verticals, i, st) ==
    IF i > Len(hs) THEN st
    ELSE RasterPairOuter(hs, verticals, i + 1,
                         RasterPairInner(hs, verticals, i, i + 1, st))

RasterPairing(l) ==
    RasterPairOuter(SortByRow(ScanHorizontals(l)), ScanVerticals(l), 1,
                    [rects |-> <<>>, used_lines |-> {}])

\* The loop over rects: inset, conversion to PDF space, clamp, size test.
\* The rows of the layouts are whole, so the division is exact.
RECURSIVE RasterRectFields(_, _, _)
RasterRectFields(rects, k, fields) ==
    IF k > Len(rects) THEN fields
    ELSE
    LET r    == rects[k]
        rx1  == r[1] + inset_px
        rx2  == r[2] - inset_px
        ry1  == r[3] + 2 * inset_px
        ry2  == r[4] - 2 * inset_px
        rect == _clamp_rect(<< rx1 * Pixel, ((2 * ImageHeight - ry2) * Pixel) \div 2,
                               rx2 * Pixel, ((2 * ImageHeight - ry1) * Pixel) \div 2 >>,
                            LayoutPage)
    IN  IF rx2 <= rx1 \/ ry2 <= ry1 THEN RasterRectFields(rects, k + 1, fields)
        ELSE IF rect[3] - rect[1] < Pt(10) \/ rect[4] - rect[2] < Pt(8)
             THEN RasterRectFields(rects, k + 1, fields)
        ELSE RasterRectFields(rects, k + 1,
                Append(fields, [type |-> "text", rect |-> rect,
                                multiline |-> (rect[4] - rect[2] >= Pt(24))]))

\* The Text rectangles of the raster pairing for a layout.
RasterRectangles(l) == RasterRectFields(RasterPairing(l).rects, 1, <<>>)

InitPairing ==
    /\ layout \in Layouts
    /\ pair_done = {}
    /\ vector_out = <<>>
    /\ raster_out = <<>>
    /\ ResolveOff
    /\ ConvertOff
    /\ MatrixOff
    /\ RasterOff
    /\ RadioOff
    /\ FillOff
    /\ TemplatesOff
    /\ CreditsOff

\* The vector pass pairs the lines of the layout.
VectorPairing ==
    /\ "off" \notin pair_done
    /\ "vector" \notin pair_done
    /\ vector_out' = VectorRectangles(layout)
    /\ pair_done' = pair_done \cup {"vector"}
    /\ UNCHANGED << layout, raster_out >>
    /\ UNCHANGED nonPairVars

\* The raster pass pairs the lines of the rendered layout.
RasterPairingPass ==
    /\ "off" \notin pair_done
    /\ "raster" \notin pair_done
    /\ raster_out' = RasterRectangles(layout)
    /\ pair_done' = pair_done \cup {"raster"}
    /\ UNCHANGED << layout, vector_out >>
    /\ UNCHANGED nonPairVars

NextPairing == VectorPairing \/ RasterPairingPass

SpecPairing == InitPairing /\ [][NextPairing]_vars

BothPaired == pair_done = {"vector", "raster"}

\* The layout as the claim describes an acceptable pair: gap in the vector
\* height window, vertical lines at both ends, no third line, whole overlap.
\* C26: for the same layout the vector and the raster pairing both emit a
\* Text rectangle or neither does.
C26_SamePairsAccepted ==
    BothPaired => ((vector_out # <<>>) <=> (raster_out # <<>>))

\* A box 120 by 20 gave one rectangle in both passes.
BothEmit ==
    /\ BothPaired
    /\ layout.w = 120 /\ layout.h = 20 /\ layout.shift = 0
    /\ layout.verticals = "both" /\ ~ layout.third
    /\ Len(vector_out) = 1
    /\ Len(raster_out) = 1

\* The raster pairing emitted a rectangle for a layout the vector pairing
\* rejects: a gap over the vector window, a third line in the interior, or
\* an overlap under 80%.
RasterOnly(gap, shift, third) ==
    /\ BothPaired
    /\ layout.h = gap /\ layout.shift = shift /\ layout.third = third
    /\ vector_out = <<>>
    /\ raster_out # <<>>

\* The vector pairing emitted a rectangle and the raster pairing none.
VectorOnly ==
    /\ BothPaired
    /\ vector_out # <<>>
    /\ raster_out = <<>>

-----------------------------------------------------------------------------
(* Ownership and deleted templates                                         *)

\* Responses of a view that read, changed, copied, exported or deleted the
\* template it was asked for.
AccessKinds ==
    {"builder", "template", "saved", "field errors", "duplicated", "deleted",
     "application/pdf"}

\* The step was a request that got at a template.
Accessed == requests' = requests + 1 /\ tpl_response'.kind \in AccessKinds

\* The user of the request may see template_id as it was before the request.
OwnAndLive(user, template_id) ==
    /\ template_id \in 1..Len(templates)
    /\ ~templates[template_id].is_deleted
    /\ is_superuser(user) \/ templates[template_id].owner = user

\* A request got at a template only if that template was not deleted and
\* was the user's own, or the user is a superuser; a list shows such
\* templates only.
OnlyOwnAndLive ==
    /\ Accessed => OwnAndLive(tpl_response'.user, tpl_response'.source)
    /\ requests' = requests + 1 =>
           \A template_id \in tpl_response'.listed :
               OwnAndLive(tpl_response'.user, template_id)

\* A stored template changes only by a request that got at it, keeps its
\* owner, never loses the deleted flag, and keeps its fields when deleted.
ChangedOnlyByAccess ==
    /\ Len(templates') >= Len(templates)
    /\ \A template_id \in 1..Len(templates) :
           /\ templates'[template_id] # templates[template_id] =>
                  Accessed /\ tpl_response'.source = template_id
           /\ templates'[template_id].owner = templates[template_id].owner
           /\ templates[template_id].is_deleted =>
                  templates'[template_id] = templates[template_id]
           /\ templates'[template_id].is_deleted =>
                  templates'[template_id].fields = templates[template_id].fields

\* C30: no user who is not a superuser reads, changes, exports, duplicates
\* or deletes a template of another owner; no request reads or changes a
\* deleted template; the deleted flag is never cleared, and deleting keeps
\* the fields of the template.
C30_OwnTemplatesOnlyAndDeletedStay == [][OnlyOwnAndLive /\ ChangedOnlyByAccess]_vars

\* Witness of C30: a user who is no superuser asked for a template of
\* another owner and was turned away.
C30_Witness ==
    /\ requests > 0
    /\ tpl_response.kind \in {"forbidden", "no access"}
    /\ ~is_superuser(tpl_response.user)
    /\ tpl_response.id \in 1..Len(templates)
    /\ templates[tpl_response.id].owner # tpl_response.user
    /\ ~is_superuser(templates[tpl_response.id].owner)

\* A template with fields was deleted and has its fields; a later request
\* for it found nothing.
DeletedKeptFields ==
    /\ requests > 0
    /\ tpl_response.kind = "deleted"
    /\ templates[tpl_response.id].is_deleted
    /\ templates[tpl_response.id].fields # <<>>

DeletedNotFound ==
    /\ requests > 0
    /\ tpl_response.kind = "not found"
    /\ tpl_response.id \in 1..Len(templates)
    /\ templates[tpl_response.id].is_deleted

\* A superuser changed a template of another owner.
SuperuserSavedOthers ==
    /\ requests > 0
    /\ tpl_response.kind = "saved"
    /\ is_superuser(tpl_response.user)
    /\ templates[tpl_response.id].owner # tpl_response.user

\* A user who is no superuser was shown a list that leaves out a template of
\* another owner and a deleted template of their own.
ListedOwnOnly ==
    /\ requests > 0
    /\ tpl_response.kind = "templates"
    /\ tpl_response.user = "creator"
    /\ tpl_response.listed # {}
    /\ \E template_id \in 1..Len(templates) :
           /\ template_id \notin tpl_response.listed
           /\ templates[template_id].owner # "creator"

-----------------------------------------------------------------------------
(* Concurrent tool requests of one user                                    *)
(* pages/views.py: _available_credits, use_tool, pdf_lock .. redact_text;  *)
(* form_creator/views.py: template_list.  A request is cut at its          *)
(* database statements: the balance query with the local work that follows *)
(* it is one step, the ServiceUsage insert with what follows it another.   *)
(* A response is modelled by its status.                                   *)

\* Requests the user has in flight at the same time.
MaxInFlight == 2

Workers == 1..MaxInFlight

\* Views that take an upload and charge after processing it.
charge_after_processing ==
    { "pdf_unlock", "pdf_merge", "pdf_split", "pdf_to_image",
      "fillable_form_convert", "image_to_pdf", "remove_pages", "redact_text" }

\* Views that take an upload.
tool_endpoints == {"pdf_lock"} \cup charge_after_processing

\* Views that charge without an upload.
launch_views == {"use_tool", "template_list"}

charging_views == tool_endpoints \cup launch_views

\* What a request carries: a file the tool can process, no file, or a file
\* the tool fails on.
ToolInputs == {"ok", "missing", "unreadable"}

InputsOf(view) == IF view \in tool_endpoints THEN ToolInputs ELSE {"ok"}

IdleRequest ==
    [pc |-> "idle", view |-> "none", input |-> "none", status |-> 0, message |-> "none"]

\* The view that never runs the tool before the insert.
ProcessedNever(view) == FALSE

\* The view runs the tool inside try/except before it records the usage.
ProcessedBeforeCharge(view) == view \in charge_after_processing

\* _available_credits(user) for the user of this machine.
remaining_credits == Max2(purchases - Len(service_usage), 0)

\* The request answers and ends.
Respond(r, view, input, status, message) ==
    in_flight' = [in_flight EXCEPT ![r] =
                    [pc |-> "done", view |-> view, input |-> input,
                     status |-> status, message |-> message]]

\* From the start of the view to its ServiceUsage insert: the balance query,
\* the refusal without credits, the validation of the upload and, in the
\* views that charge afterwards, the processing inside try/except.
ReadBalance(r, view, input) ==
    /\ in_flight[r].pc = "idle"
    /\ LET balance == remaining_credits
       IN  IF balance <= 0
             THEN Respond(r, view, input, 400, "no credits")
           ELSE IF input = "missing"
             THEN Respond(r, view, input, 400, "no upload")
           ELSE IF ProcessedBeforeCharge(view) /\ input = "unreadable"
             THEN Respond(r, view, input, 400, "unable")
           ELSE in_flight' = [in_flight EXCEPT ![r] =
                    [pc |-> "charge", view |-> view, input |-> input,
                     status |-> 0, message |-> "none"]]
    /\ UNCHANGED <<purchases, service_usage>>

\* ServiceUsage.objects.create and the rest of the view: a view that has not
\* run the tool yet (pdf_lock) runs it after the insert, every other view
\* answers.
RecordUsage(r) ==
    /\ in_flight[r].pc = "charge"
    /\ service_usage' = Append(service_usage,
                               [request |-> r, tool_slug |-> in_flight[r].view])
    /\ IF /\ in_flight[r].view \in tool_endpoints
          /\ ~ ProcessedBeforeCharge(in_flight[r].view)
          /\ in_flight[r].input = "unreadable"
         THEN Respond(r, in_flight[r].view, in_flight[r].input, 400, "unable")
         ELSE Respond(r, in_flight[r].view, in_flight[r].input, 200, "ok")
    /\ UNCHANGED purchases

InitCredits ==
    /\ purchases \in 0..Credits
    /\ service_usage = <<>>
    /\ in_flight = [r \in Workers |-> IdleRequest]
    /\ ResolveOff
    /\ ConvertOff
    /\ MatrixOff
    /\ RasterOff
    /\ RadioOff
    /\ FillOff
    /\ TemplatesOff
    /\ PairingOff

NextCredits ==
    \/ /\ \E r \in Workers : \E view \in charging_views : \E input \in InputsOf(view) :
              ReadBalance(r, view, input)
       /\ UNCHANGED nonCreditVars
    \/ /\ \E r \in Workers : RecordUsage(r)
       /\ UNCHANGED nonCreditVars

SpecCredits == InitCredits /\ [][NextCredits]_vars

\* Usages request r recorded.
ChargedBy(r) == Len(SelectSeq(service_usage, LAMBDA u : u.request = r))

\* C28: the usages recorded for the user never exceed the credits of the
\* user's completed purchases.
C28_UsagesWithinPurchases == Len(service_usage) <= purchases

\* Two requests that both read the last credit both recorded a usage.
BothChargedLastCredit ==
    /\ purchases = 1
    /\ Len(service_usage) = 2
    /\ \A r \in Workers : in_flight[r].pc = "done" /\ in_flight[r].status = 200

\* What the views do guarantee: a user without purchases records nothing,
\* and with purchases the overdraft is below the number of requests in flight.
OverdraftBelowInFlight ==
    /\ purchases = 0 => service_usage = <<>>
    /\ Len(service_usage) <= purchases + MaxInFlight - 1

\* A request of view `view` has ended with `status`.
Ended(r, view, status) ==
    /\ in_flight[r].pc = "done"
    /\ in_flight[r].view = view
    /\ in_flight[r].status = status

\* C29: a request to a tool endpoint that ended in an error recorded no
\* usage, and one that succeeded recorded exactly one.
C29_ChargedOnlyOnSuccess ==
    \A r \in Workers : \A view \in tool_endpoints :
        /\ Ended(r, view, 400) => ChargedBy(r) = 0
        /\ Ended(r, view, 200) => ChargedBy(r) = 1

\* pdf_lock answered an error and had recorded a usage.
LockChargedOnError ==
    \E r \in Workers : Ended(r, "pdf_lock", 400) /\ ChargedBy(r) = 1

\* C29 as the views have it: a request that succeeded recorded exactly one
\* usage; a request that ended in an error recorded none, except that
\* pdf_lock, which records the usage before it runs the tool, keeps the
\* usage when the tool then fails.
C29_ChargedOnSuccessOrLockFailure ==
    \A r \in Workers :
        /\ \A view \in tool_endpoints :
               Ended(r, view, 200) => ChargedBy(r) = 1
        /\ \A view \in charge_after_processing :
               Ended(r, view, 400) => ChargedBy(r) = 0
        /\ Ended(r, "pdf_lock", 400) =>
               ChargedBy(r) = IF in_flight[r].message = "unable" THEN 1 ELSE 0

\* Witness of C29: one request was refused its merge on the upload and
\* recorded nothing, the other merged and recorded one usage.
C29_Witness ==
    /\ Ended(1, "pdf_merge", 400)
    /\ in_flight[1].message = "unable"
    /\ ChargedBy(1) = 0
    /\ Ended(2, "pdf_merge", 200)
    /\ ChargedBy(2) = 1
    /\ Len(service_usage) = 1

\* The launch views record one usage when they answer.
LaunchCharged ==
    \A r \in Workers : \A view \in launch_views :
        Ended(r, view, 200) => ChargedBy(r) = 1

\* A merge failed on its upload with credits left, and nothing was recorded.
MergeFailedUncharged ==
    \E r \in Workers :
        /\ Ended(r, "pdf_merge", 400)
        /\ in_flight[r].input = "unreadable"
        /\ purchases > 0
        /\ service_usage = <<>>

=============================================================================
